---- MODULE Spec2Model ----
(***************************************************************************)
(* A model of the neXus backend's rate-limited platform client.            *)
(*                                                                         *)
(*   utils/rate_limiter.py      TokenBucketRateLimiter  (SpecRL)           *)
(*   services/twitter_client.py TwitterClient           (SpecClient)       *)
(*                                                                         *)
(* Time is counted in ticks of 0.1 s, the resolution of the jitter         *)
(* uniform(0.1, 0.5).  The refill rate is one token per TicksPerToken      *)
(* ticks, and the bucket level is kept in tick-worths (tokens *            *)
(* TicksPerToken), so that tokens + elapsed * rate and                     *)
(* (cost - tokens) / rate are exact integers.                              *)
(***************************************************************************)
EXTENDS Integers, Sequences, FiniteSets, Bags, TLC

\* ---------------------------------------------------------------- bounds
\* Concurrent callers of acquire on the one process-wide limiter.
NumCallers == 2
\* capacity, in tokens (constructor argument).
Capacity == 2
\* 1 / rate, in ticks per token (constructor argument rate_per_second > 0).
TicksPerToken == 2
\* Largest total cost of the calls of one observed sequence of calls.
MaxSeqCost == 3

\* Largest number of items (connections, posts) the provider holds for a user.
MaxItems == 1002
\* Clock readings per hour: timestamps are read to 1 / ClockParts of an hour.
ClockParts == 2
\* Largest max_age_hours passed to is_stale.
MaxHours == 3
\* Most profiles in a following or followers list handed to the mutual
\* computation on its own.
MaxListed == 3
\* Most mutual connections of the crawled user.
MaxMutuals == 6
\* Most mutual connections of a user who is crawled again.
MaxRecrawled == 2
\* Most crawls of the same user.
MaxCrawls == 2
\* How many profiles the table x_profiles holds.
MaxProfiles == 3
\* Largest batch_size passed to the embedding pipeline.
MaxBatchSize == 2
\* Most posts handed to generate_profile_summary.
MaxPosts == 11
\* Most candidate bridges between the two users of a pathway request.
MaxBridges == 3
\* lists of mutuals hold up to MAX_SECOND_DEGREE_PROFILES + MaxOver profiles
MaxOver == 3

\* ------------------------------------------------------------- constants
\* Ticks per second.
TicksPerSecond == 10
\* uniform(0.1, 0.5) seconds, in ticks.
JitterMin == 1
JitterMax == 5
\* _request(max_retries = 3)
MaxRetries == 3
\* wait_time = 900 after a 429
Cooldown == 900
\* get_users_batch: len(user_ids) > 100
BatchLimit == 100
\* get_following / get_followers (max_results = 10)
DefaultPageSize == 10
\* min(max_results, 1000)
FollowCap == 1000
\* min(max_results, 100)
TweetCap == 100
\* staleness.py: TTLs in hours
CONNECTION_FRESHNESS_HOURS == 168
POSTS_FRESHNESS_HOURS == 24
\* embeddings.py: posts[:10], followers_count > 10000
SamplePosts == 10
InfluentialAbove == 10000
\* influence_pathways.py: list(your_1st_degree)[:100]
PathwaySample == 100
\* influence_pathways.py: the weights of overall_score, in hundredths
TopicWeight == 30
BridgeWeight == 25
InfluenceWeight == 20
EngagementWeight == 15
YourWeight == 10
\* influence_pathways.py: topic_alignment = 50.0 without embeddings
NeutralTopic == 50
\* scraper.py: limits
MAX_SECOND_DEGREE_PROFILES == 100
MIN_FOLLOWERS_FOR_POSTS == 50
\* scrape_connections: batch_size = 5
batch_size == 5

Callers == 1..NumCallers
\* The costs a caller asks for: one token, a full bucket, and Capacity + 1,
\* which the bucket can never cover.
Costs == {1, Capacity, Capacity + 1}

Min(a, b) == IF a <= b THEN a ELSE b
Max(a, b) == IF a >= b THEN a ELSE b

VARIABLES
  \* TokenBucketRateLimiter
  tokens,      \* self.tokens, in tick-worths
  elapsed,     \* time.time() - self.last_update, in ticks (saturating)
  lock,        \* the set of callers inside `async with self.lock`
  waiters,     \* the FIFO queue of callers suspended on self.lock
  pc,          \* each caller's position in acquire
  cost,        \* each caller's argument
  wake,        \* ticks left of a caller's sleep(total_wait)
  \* what an observer of a sequence of calls measures
  observing,   \* whether a sequence of calls is being observed
  blocked,     \* ticks each caller has spent so far in its current call
  seqInit,     \* tokens available when the observed sequence started
  seqCost,     \* total cost of the calls of the sequence so far
  seqSleeps,   \* number of calls of the sequence that slept
  \* the provider, TwitterClient's operation in progress and its call of
  \* TwitterClient._request
  cl,
  \* staleness.is_stale: the arguments, clock reading and result of one call
  st,
  \* scraper.retrieve_connections: the mutual computation of one call
  mu,
  \* scraper.scrape_connections(user, db), its world and its observer
  sc,
  \* EmbeddingsService, the routes that write summaries and embeddings, the
  \* columns they write and their observer
  em,
  \* influence_pathways.analyze_influence_pathways: the tables it reads and
  \* its response
  pw

\* staleness.is_stale: one call
\* the argument, <<>> for None, else <<t>> in clock parts
timestamp == st.timestamp
\* the argument
max_age_hours == st.max_age_hours
\* datetime.utcnow() inside the call, in clock parts
utcnow == st.utcnow
\* what the call returned, <<>> before it returns
stale == st.stale

\* scraper.retrieve_connections: the mutual computation of one call
\* what get_all_following returned
following == mu.following
\* what get_all_followers returned
followers == mu.followers
\* the returned dict, <<>> before the call returns
connections_data == mu.connections_data

\* the world of the scraper
\* datetime.utcnow(), in clock parts
clock == sc.clock
\* the provider's follow graph: <<a, b>> when a follows b
edges == sc.edges
\* the database: what has been committed
committed == sc.committed
\* the AsyncSession db: statements executed, not committed
pending == sc.pending

\* scraper.scrape_connections(user, db)
\* "idle", "retrieve", "add", "batch", "gather", "returned", "raised" or
\* "unbound"
spc == sc.spc
\* how many crawls of user have been started
crawls == sc.crawls
\* connections_data["mutual"] of the crawl
first_degree == sc.first_degree
limited_mutuals == sc.limited_mutuals
\* the loop variable i
batch_start == sc.batch_start
second_degree_mutuals == sc.second_degree_mutuals
\* the dict scrape_connections returned, in <<...>>
returned == sc.returned

\* add_to_db, run by process 0 (the crawl itself) and by the process_mutual
\* task of limited_mutuals[j] (process j)
\* of each process started: "retrieve", "upsert", "connect", "posts",
\* "store", "commit120", "commit186", "done" or "caught"
apc == sc.apc
\* the argument mutual (filtered_mutuals in a task)
amutual == sc.amutual
\* the position of the running loop in mutual
aidx == sc.aidx
\* posts_added and skipped_fresh of the process's scrape_posts_for_profiles
posts_added == sc.posts_added
skipped_fresh == sc.skipped_fresh

\* what an observer of the crawl records
\* writes executed and not yet committed, by writer
staged == sc.staged
\* writes committed, by writer (the latest per key)
durable == sc.durable
\* the processes whose call has rolled the session back
rollbacks == sc.rollbacks
\* the profiles whose posts were requested
requested == sc.requested
\* the bag of users whose connections were walked
discoveries == sc.discoveries

\* the provider
\* how many items each listing of the user holds
total == cl.total

\* TwitterClient: the operation in progress
\* the method called, or "none"
op == cl.op
\* len(user_ids), max_results (0 for None) or count
arg == cl.arg
\* "idle", "acquire", "send", "next", "done" or "raised"
cpc == cl.cpc
\* get_all_*: the profiles collected so far
all_users == cl.all_users
\* the pagination tokens of the pages received so far
asked == cl.asked
\* the list the operation returned
result == cl.result
\* the exception the operation raised, or "none"
error == cl.error

\* TwitterClient._request: the call in progress
\* params["max_results"]
reqMax == cl.reqMax
\* params["pagination_token"], <<>> when not set
reqToken == cl.reqToken
\* the loop variable
attempt == cl.attempt
\* tokens acquired by this call
acquired == cl.acquired
\* HTTP requests dispatched by this call
dispatched == cl.dispatched
\* the sleeps of this call between attempts, in seconds
waits == cl.waits
\* whether every response so far was a 429
only429 == cl.only429
\* the exception this call raised, or "none"
reqError == cl.reqError

rlVars == <<tokens, elapsed, lock, waiters, pc, cost, wake,
            observing, blocked, seqInit, seqCost, seqSleeps>>

clVars == <<cl>>

\* Everything outside the limiter and the client.
\* The enrichment pipeline.
ragVars == <<em, pw>>

svcVars == <<st, mu, sc, ragVars>>

vars == <<rlVars, clVars, svcVars>>

\* --------------------------------------------------------- rate limiter
Full == Capacity * TicksPerToken

\* elapsed saturates where min(capacity, ...) stops reading it.
Later(e, d) == Min(Full, e + d)

\* self.tokens = min(self.capacity, self.tokens + elapsed * self.rate)
Refill(t, e) == Min(Full, t + e)

\* get_tokens_remaining()
TokensRemaining == Refill(tokens, elapsed)

\* A limiter whose sleep starts one token too early (<= for <).
ShortOffByOne(t, c) == t <= c * TicksPerToken

\* if self.tokens < tokens
Short(t, c) == t < c * TicksPerToken

\* wait_time = (tokens - self.tokens) / self.rate
WaitTime(t, c) == c * TicksPerToken - t

\* A bucket that hands tokens out without taking them.
DebitFree(t, c) == t

\* self.tokens -= tokens
Debit(t, c) == t - c * TicksPerToken

\* after the sleep: self.tokens = 0
AfterSleep(t) == 0

\* A lock any caller may take at any time.
LockFreeIgnored == TRUE

\* asyncio.Lock: acquire succeeds when the lock is not held
LockFree == lock = {}

\* A lock that is never released.
ReleaseNever(l, c) == l

\* leaving `async with self.lock`
Release(l, c) == l \ {c}

\* No client operation is in progress; the provider lists nothing.
ClientIdle ==
  [total |-> 0, op |-> "none", arg |-> 0, cpc |-> "idle",
   all_users |-> <<>>, asked |-> <<>>, result |-> <<>>, error |-> "none",
   reqMax |-> 0, reqToken |-> <<>>, attempt |-> 0,
   acquired |-> 0, dispatched |-> 0, waits |-> <<>>,
   only429 |-> TRUE, reqError |-> "none"]

\* No client is modelled beside the limiter's callers.
ClientAtRest == cl = ClientIdle

\* TokenBucketRateLimiter.__init__, before any call.
LimiterInit ==
  /\ tokens = Full
  /\ elapsed = 0
  /\ lock = {}
  /\ waiters = <<>>
  /\ pc = [c \in Callers |-> "idle"]
  /\ cost = [c \in Callers |-> 1]
  /\ wake = [c \in Callers |-> 0]
  /\ observing = FALSE
  /\ blocked = [c \in Callers |-> 0]
  /\ seqInit = Full
  /\ seqCost = 0
  /\ seqSleeps = 0

\* No staleness check and no mutual computation is modelled.
StaleAtRest ==
  st = [timestamp |-> <<>>, max_age_hours |-> 0, utcnow |-> 0, stale |-> <<>>]

MutualAtRest ==
  mu = [following |-> <<>>, followers |-> <<>>, connections_data |-> <<>>]

\* An empty database or session.
NoRows == [profiles |-> {}, connections |-> {}, posts |-> {}]

\* No writes recorded.
NoWrites == [upserts |-> {}, connections |-> {}, posts |-> {}]

\* The crawl itself and the tasks of the selected first-degree mutuals.
Procs == 0..MaxMutuals

\* Everyone the provider knows.
Users == 0..(11 + MaxMutuals)

\* An empty provider and database; scrape_connections has not been called
\* and db is a new session.
CrawlIdle ==
  [clock |-> 0, edges |-> {}, committed |-> NoRows, pending |-> NoRows,
   spc |-> "idle", crawls |-> 0, first_degree |-> <<>>,
   limited_mutuals |-> <<>>, batch_start |-> 0,
   second_degree_mutuals |-> <<>>, returned |-> <<>>,
   apc |-> <<>>, amutual |-> <<>>, aidx |-> <<>>,
   posts_added |-> <<>>, skipped_fresh |-> <<>>,
   staged |-> NoWrites, durable |-> NoWrites,
   rollbacks |-> {}, requested |-> {}, discoveries |-> EmptyBag]

\* No scraper is modelled.
ScraperAtRest == sc = CrawlIdle

\* The profiles of the table x_profiles.
EProfiles == 1..MaxProfiles

\* NULL in a column.
Null == "null"

\* Every profile as add_to_db inserted it (no summary, no embedding), no
\* posts, and no call of the pipeline in progress.
EmbedIdle ==
  [summary |-> [p \in EProfiles |-> Null],
   embedding |-> [p \in EProfiles |-> Null],
   posts |-> {},
   lpc |-> "idle", all_batch_size |-> 0, lacking |-> {}, attempted |-> {},
   total_processed |-> 0, total_errors |-> 0,
   last |-> <<>>, call |-> <<>>, ret |-> <<>>]

\* No table and no request of analyze_influence_pathways.
PathIdle ==
  [connections |-> <<>>, profiles |-> <<>>, search |-> <<>>, response |-> <<>>]

PathAtRest == pw = PathIdle

\* No enrichment and no ranking is modelled.
RagAtRest == em = EmbedIdle /\ PathAtRest

ServicesAtRest == StaleAtRest /\ MutualAtRest /\ ScraperAtRest /\ RagAtRest

InitRL == LimiterInit /\ ClientAtRest /\ ServicesAtRest

\* An observer starts a new sequence of calls on the quiescent limiter and
\* reads the tokens now available.
StartSequence ==
  /\ UNCHANGED <<clVars, svcVars>>
  /\ \A c \in Callers : pc[c] = "idle"
  /\ ~observing \/ seqCost > 0
  /\ observing' = TRUE
  /\ seqInit' = TokensRemaining
  /\ seqCost' = 0
  /\ seqSleeps' = 0
  /\ UNCHANGED <<tokens, elapsed, lock, waiters, pc, cost, wake, blocked>>

\* acquire(k) is called: the caller queues on the lock.
Call(c, k) ==
  /\ UNCHANGED <<clVars, svcVars>>
  /\ pc[c] = "idle"
  /\ observing => seqCost + k <= MaxSeqCost
  /\ pc' = [pc EXCEPT ![c] = "waiting"]
  /\ cost' = [cost EXCEPT ![c] = k]
  /\ waiters' = Append(waiters, c)
  /\ seqCost' = IF observing THEN seqCost + k ELSE seqCost
  /\ UNCHANGED <<tokens, elapsed, lock, wake,
                 observing, blocked, seqInit, seqSleeps>>

\* async with self.lock: the first waiter takes the free lock.
Enter(c) ==
  /\ UNCHANGED <<clVars, svcVars>>
  /\ pc[c] = "waiting"
  /\ waiters # <<>> /\ Head(waiters) = c
  /\ LockFree
  /\ lock' = lock \cup {c}
  /\ waiters' = Tail(waiters)
  /\ pc' = [pc EXCEPT ![c] = "locked"]
  /\ UNCHANGED <<tokens, elapsed, cost, wake,
                 observing, blocked, seqInit, seqCost, seqSleeps>>

\* Refill, then either start the sleep or debit and leave.
Check(c) ==
  /\ UNCHANGED <<clVars, svcVars>>
  /\ pc[c] = "locked"
  /\ LET t == Refill(tokens, elapsed) IN
       /\ elapsed' = 0
       /\ IF Short(t, cost[c])
          THEN \E j \in JitterMin..JitterMax :
                 /\ tokens' = t
                 /\ wake' = [wake EXCEPT ![c] = WaitTime(t, cost[c]) + j]
                 /\ pc' = [pc EXCEPT ![c] = "sleeping"]
                 /\ seqSleeps' = IF observing THEN seqSleeps + 1 ELSE seqSleeps
                 /\ UNCHANGED <<lock, cost, blocked>>
          ELSE /\ tokens' = Debit(t, cost[c])
               /\ lock' = Release(lock, c)
               /\ pc' = [pc EXCEPT ![c] = "idle"]
               /\ cost' = [cost EXCEPT ![c] = 1]
               /\ blocked' = [blocked EXCEPT ![c] = 0]
               /\ UNCHANGED <<wake, seqSleeps>>
  /\ UNCHANGED <<waiters, observing, seqInit, seqCost>>

\* The sleep is over: zero the bucket, restart the clock, release the lock.
Wake(c) ==
  /\ UNCHANGED <<clVars, svcVars>>
  /\ pc[c] = "sleeping"
  /\ wake[c] = 0
  /\ tokens' = AfterSleep(tokens)
  /\ elapsed' = 0
  /\ lock' = Release(lock, c)
  /\ pc' = [pc EXCEPT ![c] = "idle"]
  /\ cost' = [cost EXCEPT ![c] = 1]
  /\ blocked' = [blocked EXCEPT ![c] = 0]
  /\ UNCHANGED <<waiters, wake, observing, seqInit, seqCost, seqSleeps>>

\* A caller that can run without waiting for the clock.
Ready(c) ==
  \/ pc[c] = "waiting" /\ waiters # <<>> /\ Head(waiters) = c /\ LockFree
  \/ pc[c] = "locked"
  \/ pc[c] = "sleeping" /\ wake[c] = 0

InCall(c) == pc[c] \in {"waiting", "locked", "sleeping"}

\* One tick of the clock passes; runnable callers run first.
Tick ==
  /\ UNCHANGED <<clVars, svcVars>>
  /\ \A c \in Callers : ~Ready(c)
  /\ \/ \E c \in Callers : InCall(c)
     \/ elapsed < Full
  /\ elapsed' = Later(elapsed, 1)
  /\ wake' = [c \in Callers |->
                IF pc[c] = "sleeping" THEN wake[c] - 1 ELSE wake[c]]
  /\ blocked' = [c \in Callers |->
                   IF observing /\ InCall(c) THEN blocked[c] + 1 ELSE blocked[c]]
  /\ UNCHANGED <<tokens, lock, waiters, pc, cost,
                 observing, seqInit, seqCost, seqSleeps>>

NextLimiter ==
  \/ \E c \in Callers, k \in Costs : Call(c, k)
  \/ \E c \in Callers : Enter(c)
  \/ \E c \in Callers : Check(c)
  \/ \E c \in Callers : Wake(c)
  \/ Tick

\* The limiter with an observer of sequences of calls.
NextRL == StartSequence \/ NextLimiter

SpecRL == InitRL /\ [][NextRL]_vars

\* The event loop runs every runnable coroutine, and the clock runs.
Progress ==
  \/ \E c \in Callers : Enter(c) \/ Check(c) \/ Wake(c)
  \/ Tick

FairSpecRL == InitRL /\ [][NextLimiter]_vars /\ WF_vars(Progress)

\* ------------------------------------------------------------ provider
\* Item counts the provider may hold for the user.
Totals == {0, 7, 25, 120, MaxItems}

\* The provider's JSON of user i and of the user's i-th most recent post.
RawUser(i) ==
  [id |-> i, followers_count |-> 10 * (i % 10), protected |-> (i % 4 = 0)]
RawTweet(i) == [id |-> i, text |-> 5000 + i]

\* What the provider lists behind an endpoint, in its order: how many
\* items, the i-th item, all of them.
ListLen(ep) == IF ep = "users" THEN arg ELSE total

Item(ep, i) ==
  CASE ep = "following" -> RawUser(i)
    [] ep = "followers" -> RawUser(total + 2 - i)
    [] ep = "tweets" -> RawTweet(i)
    [] ep = "users" -> RawUser(i)

Listing(ep) == [i \in 1..ListLen(ep) |-> Item(ep, i)]

\* A pagination token names how many items came before the page.
Offset(tok) == IF tok = <<>> THEN 0 ELSE tok[1]

\* The provider's answer to a listing request: one page, and the token of
\* the next page when items remain.
PageLen(ep, size, tok) ==
  IF ep = "users" THEN ListLen(ep)
  ELSE Max(0, Min(size, ListLen(ep) - Offset(tok)))

NextToken(ep, size, tok) ==
  IF Offset(tok) + PageLen(ep, size, tok) < ListLen(ep)
  THEN <<Offset(tok) + PageLen(ep, size, tok)>>
  ELSE <<>>

Page(ep, size, tok) ==
  [data |-> [i \in 1..PageLen(ep, size, tok) |-> Item(ep, Offset(tok) + i)],
   next_token |-> NextToken(ep, size, tok)]

\* A response: 200, 429, another 4xx, a 5xx, a timeout, a network failure.
Statuses == {"ok", "s429", "s404", "s500", "timeout", "neterr"}

\* -------------------------------------------------------- TwitterClient
\* _parse_user
ParseUser(d) ==
  [x_user_id |-> d.id, followers_count |-> d.followers_count,
   is_protected |-> d.protected]

\* _parse_tweet
ParseTweet(d) == [tweet_id |-> d.id, content |-> d.text]

\* users.append(self._parse_user(user_data)) for each item of data
ParseUsers(data) == [i \in 1..Len(data) |-> ParseUser(data[i])]

\* get_user_tweets, then [tweet.content for tweet in tweets]
PostsText(data) == [i \in 1..Len(data) |-> ParseTweet(data[i]).content]

Walks == {"get_all_following", "get_all_followers"}

EndpointOf(o) ==
  CASE o = "get_users_batch" -> "users"
    [] o = "get_all_following" -> "following"
    [] o = "get_all_followers" -> "followers"
    [] o = "get_user_posts_text" -> "tweets"

\* A batch lookup that accepts one id more.
TooManyOffByOne(n) == n > BatchLimit + 1

\* if len(user_ids) > 100
TooMany(n) == n > BatchLimit

\* A client that takes a token before its first attempt only.
AcquiringFirstOnly == {0}

\* for attempt in range(max_retries): await x_api_rate_limiter.acquire()
AcquiringAttempts == 0..(MaxRetries - 1)

\* A retry test that lets the last attempt wait and go round again.
MoreAttemptsOffByOne(a) == a < MaxRetries

\* if attempt < max_retries - 1
MoreAttempts(a) == a < MaxRetries - 1

\* A client that waits one second before every retry.
SleepForFlat(s, a) == IF s = "s429" THEN Cooldown ELSE 1

\* wait_time = 900 after a 429, 2 ** attempt after any other failure
SleepFor(s, a) == IF s = "s429" THEN Cooldown ELSE 2 ^ a

\* The exception _request raises after its last attempt.
ErrorOf(s) ==
  CASE s = "s429" -> "RateLimited"
    [] s \in {"s404", "s500"} -> "HTTPStatusError"
    [] s = "timeout" -> "TimeoutException"
    [] s = "neterr" -> "NetworkError"

\* get_user_tweets_batch: except Exception: return []
Swallows(o) == o = "get_user_posts_text"

\* A walk that asks for the first page again.
WalkTokenDropped(next) == <<>>

\* get_following(user_id, pagination_token=next_token)
WalkToken(next) == next

InitClient ==
  /\ LimiterInit /\ ServicesAtRest
  /\ cl \in {[ClientIdle EXCEPT !.total = t] : t \in Totals}

\* _request is entered: url is built, the loop starts.
StartRequest(c, max, tok) ==
  [c EXCEPT !.reqMax = max, !.reqToken = tok,
            !.attempt = 0, !.acquired = 0, !.dispatched = 0, !.waits = <<>>,
            !.only429 = TRUE, !.reqError = "none",
            !.cpc = "acquire"]

\* get_users_batch(user_ids) with n ids.
CallUsersBatch(n) ==
  /\ cpc = "idle"
  /\ LET called == [cl EXCEPT !.op = "get_users_batch", !.arg = n]
     IN cl' = IF TooMany(n)
              THEN [called EXCEPT !.cpc = "raised", !.error = "ValueError"]
              ELSE StartRequest(called, 0, <<>>)
  /\ UNCHANGED <<svcVars, rlVars>>

\* get_all_following / get_all_followers(user_id, max_results = m).
CallAll(o, m) ==
  /\ cpc = "idle"
  /\ LET called == [cl EXCEPT !.op = o, !.arg = m]
     IN cl' = IF m # 0
              THEN StartRequest(called, Min(m, FollowCap), <<>>)
              ELSE StartRequest(called, Min(DefaultPageSize, FollowCap), <<>>)
  /\ UNCHANGED <<svcVars, rlVars>>

\* get_user_posts_text(user_id, count).
CallPostsText(n) ==
  /\ cpc = "idle"
  /\ cl' = StartRequest([cl EXCEPT !.op = "get_user_posts_text", !.arg = n],
                        Min(n, TweetCap), <<>>)
  /\ UNCHANGED <<svcVars, rlVars>>

\* await x_api_rate_limiter.acquire(): the lock is free, so the call
\* refills, and debits or sleeps and zeroes, in one go.
ReqAcquire ==
  /\ cpc = "acquire"
  /\ IF attempt \in AcquiringAttempts
     THEN LET t == Refill(tokens, elapsed) IN
            /\ tokens' = IF Short(t, 1) THEN AfterSleep(t) ELSE Debit(t, 1)
            /\ elapsed' = 0
            /\ cl' = [cl EXCEPT !.acquired = @ + 1, !.cpc = "send"]
     ELSE /\ UNCHANGED <<tokens, elapsed>>
          /\ cl' = [cl EXCEPT !.cpc = "send"]
  /\ UNCHANGED <<lock, waiters, pc, cost, wake,
                 observing, blocked, seqInit, seqCost, seqSleeps>>
  /\ UNCHANGED svcVars

\* The operation goes on with the JSON _request returned.
OnData(c, page) ==
  LET received == [c EXCEPT !.asked = Append(@, c.reqToken)]
      collected == c.all_users \o ParseUsers(page.data)
  IN CASE c.op = "get_users_batch" ->
            [received EXCEPT !.result = ParseUsers(page.data), !.cpc = "done"]
       [] c.op \in Walks /\ c.arg # 0 ->
            [received EXCEPT !.result = ParseUsers(page.data), !.cpc = "done"]
       [] c.op \in Walks /\ c.arg = 0 ->
            IF page.next_token = <<>>
            THEN [received EXCEPT !.all_users = collected,
                                  !.result = collected,
                                  !.cpc = "done"]
            ELSE [received EXCEPT !.all_users = collected,
                                  !.reqToken = WalkToken(page.next_token),
                                  !.cpc = "next"]
       [] c.op = "get_user_posts_text" ->
            [received EXCEPT !.result = PostsText(page.data), !.cpc = "done"]

\* The operation's answer to an exception of _request.
OnFailure(c, err) ==
  IF Swallows(c.op)
  THEN [c EXCEPT !.cpc = "done", !.result = <<>>]
  ELSE [c EXCEPT !.cpc = "raised", !.error = err]

\* client.request(...) is dispatched and answered with s; the attempt ends
\* with the JSON, with a sleep before the next attempt, or with a raise.
ReqSend(s) ==
  /\ cpc = "send"
  /\ LET retry == s # "ok" /\ MoreAttempts(attempt)
         d == SleepFor(s, attempt)
         err == IF s = "ok" \/ (retry /\ attempt + 1 < MaxRetries) THEN "none"
                ELSE IF retry THEN "RequestFailed"
                ELSE ErrorOf(s)
         sent == [cl EXCEPT
                    !.dispatched = @ + 1,
                    !.only429 = (@ /\ s = "s429"),
                    !.waits = IF retry THEN Append(@, d) ELSE @,
                    !.attempt = IF retry THEN @ + 1 ELSE @,
                    !.reqError = err]
     IN  /\ elapsed' = IF retry THEN Later(elapsed, d * TicksPerSecond)
                       ELSE elapsed
         /\ cl' = IF s = "ok"
                  THEN OnData(sent, Page(EndpointOf(op), reqMax, reqToken))
                  ELSE IF err = "none" THEN [sent EXCEPT !.cpc = "acquire"]
                  ELSE OnFailure(sent, err)
  /\ UNCHANGED <<tokens, lock, waiters, pc, cost, wake,
                 observing, blocked, seqInit, seqCost, seqSleeps>>
  /\ UNCHANGED svcVars

\* while True: the next get_following / get_followers call.
WalkNext ==
  /\ cpc = "next"
  /\ cl' = StartRequest(cl, reqMax, reqToken)
  /\ UNCHANGED <<svcVars, rlVars>>

\* The caller has the result or the exception; the client is idle again.
Return ==
  /\ cpc \in {"done", "raised"}
  /\ cl' = [ClientIdle EXCEPT !.total = total]
  /\ UNCHANGED <<svcVars, rlVars>>

\* Time passes between two operations.
Pause ==
  /\ cpc = "idle"
  /\ elapsed < Full
  /\ elapsed' = Later(elapsed, 1)
  /\ UNCHANGED <<tokens, lock, waiters, pc, cost, wake,
                 observing, blocked, seqInit, seqCost, seqSleeps>>
  /\ UNCHANGED <<clVars, svcVars>>

NextClient ==
  \/ \E n \in {1, BatchLimit, BatchLimit + 1} : CallUsersBatch(n)
  \/ \E o \in Walks, m \in {0, 5, 20, FollowCap + 1} : CallAll(o, m)
  \/ \E n \in {5, 50, TweetCap + 1} : CallPostsText(n)
  \/ ReqAcquire
  \/ \E s \in Statuses : ReqSend(s)
  \/ WalkNext
  \/ Return
  \/ Pause

SpecClient == InitClient /\ [][NextClient]_vars

\* Every started operation is run on: the event loop has nothing else to do.
FairSpecClient ==
  SpecClient /\ WF_vars(ReqAcquire \/ (\E s \in Statuses : ReqSend(s)) \/ WalkNext)

\* ------------------------------------------------------------ staleness
\* Clock readings, in parts of an hour.
Clock == 0..((MaxHours + 2) * ClockParts)

\* A check that also calls a record aged exactly max_age_hours stale.
is_stale_inclusive(ts, h, now) ==
  IF ts = <<>> THEN TRUE ELSE now - ts[1] >= h * ClockParts

\* is_stale(timestamp, max_age_hours), read at clock reading now:
\* age_hours = (utcnow() - timestamp).total_seconds() / 3600 is compared
\* as a fraction, age_hours > max_age_hours.
is_stale(ts, h, now) ==
  IF ts = <<>> THEN TRUE ELSE now - ts[1] > h * ClockParts

\* Any timestamp (None, past, present or future) and any positive TTL.
InitStale ==
  /\ LimiterInit /\ ClientAtRest /\ MutualAtRest /\ ScraperAtRest
  /\ RagAtRest
  /\ st \in [timestamp : {<<>>} \cup {<<t>> : t \in Clock},
              max_age_hours : 1..MaxHours,
              utcnow : Clock,
              stale : {<<>>}]

\* The call returns.
IsStaleCall ==
  /\ stale = <<>>
  /\ st' = [st EXCEPT !.stale = <<is_stale(timestamp, max_age_hours, utcnow)>>]
  /\ UNCHANGED <<rlVars, clVars, mu, sc, ragVars>>

NextStale == IsStaleCall

SpecStale == InitStale /\ [][NextStale]_vars

\* ------------------------------------------- scraper: mutual connections
\* The ids of a list of profiles.
Ids(profiles) == {profiles[i].x_user_id : i \in DOMAIN profiles}

\* A computation that keeps whoever is on either list.
mutual_ids_either(fg, fr) == Ids(fg) \cup Ids(fr)

\* mutual_ids = following_ids & followers_ids
mutual_ids(fg, fr) == Ids(fg) \cap Ids(fr)

\* mutual = [profile for profile in following
\*           if profile.x_user_id in mutual_ids]
Mutual(fg, fr) ==
  SelectSeq(fg, LAMBDA profile : profile.x_user_id \in mutual_ids(fg, fr))

\* The dict retrieve_connections returns.
ConnectionsData(fg, fr) ==
  [following |-> fg, followers |-> fr, mutual |-> Mutual(fg, fr),
   following_count |-> Len(fg), followers_count |-> Len(fr),
   mutual_count |-> Len(Mutual(fg, fr))]

\* What a paginated walk can return: profiles of the provider, each once,
\* in any order.
Listings ==
  UNION {{ParseUsers([i \in 1..n |-> RawUser(f[i])]) :
            f \in {g \in [1..n -> 1..MaxListed] :
                     \A i, j \in 1..n : i # j => g[i] # g[j]}} :
         n \in 0..MaxListed}

InitMutual ==
  /\ LimiterInit /\ ClientAtRest /\ StaleAtRest /\ ScraperAtRest
  /\ RagAtRest
  /\ mu \in [following : Listings, followers : Listings,
              connections_data : {<<>>}]

\* Lines 39-52 of retrieve_connections, after the two walks returned.
RetrieveMutual ==
  /\ connections_data = <<>>
  /\ mu' = [mu EXCEPT
              !.connections_data = <<ConnectionsData(following, followers)>>]
  /\ UNCHANGED <<rlVars, clVars, st, sc, ragVars>>

NextMutual == RetrieveMutual

SpecMutual == InitMutual /\ [][NextMutual]_vars

\* ------------------------------------------ scraper: provider and store
\* The UserDb row passed to scrape_connections.
user == ParseUser(RawUser(10))

RECURSIVE Ascending(_)
\* The members of a set of ids, in ascending order.
Ascending(S) ==
  IF S = {} THEN <<>>
  ELSE LET least == CHOOSE x \in S : \A y \in S : x <= y
       IN <<least>> \o Ascending(S \ {least})

\* The profiles with the ids S, as the client returns a walk over them.
Profiles(S) == ParseUsers([i \in 1..Cardinality(S) |-> RawUser(Ascending(S)[i])])

\* client.get_all_following(x_user_id), client.get_all_followers(x_user_id)
Following(x) == Profiles({e[2] : e \in {f \in edges : f[1] = x}})
Followers(x) == Profiles({e[1] : e \in {f \in edges : f[2] = x}})

\* The m profiles after user: the mutuals of user in Network(m).
Firsts(m) == {user.x_user_id + i : i \in 1..m}

\* A follow graph in which user and the m profiles after it follow each
\* other and user follows 8 one way; when linked, the first of the m also
\* has 5 and 9 as mutuals, and the second has 9 and follows 8 one way.
Network(m, linked) ==
  {<<user.x_user_id, i>> : i \in Firsts(m) \cup {8}}
    \cup {<<i, user.x_user_id>> : i \in Firsts(m)}
    \cup IF linked
         THEN {<<i, 9>> : i \in Firsts(Min(m, 2))}
                \cup {<<9, i>> : i \in Firsts(Min(m, 2))}
                \cup {<<i, 5>> : i \in Firsts(Min(m, 1))}
                \cup {<<5, i>> : i \in Firsts(Min(m, 1))}
                \cup {<<i, 8>> : i \in Firsts(Min(m, 2)) \ Firsts(1)}
         ELSE {}

\* An insert that ignores the conflict on x_user_id and adds a second row.
UpsertAppend(rows, row) == rows \cup {row}

\* insert(...).on_conflict_do_update(index_elements=['x_user_id'], set_=...)
Upsert(rows, row) == {r \in rows : r.x_user_id # row.x_user_id} \cup {row}

RECURSIVE Apply(_, _)
\* The statements of a transaction applied to a table.
Apply(rows, written) ==
  IF written = {} THEN rows
  ELSE LET row == CHOOSE r \in written : TRUE
       IN Apply(Upsert(rows, row), written \ {row})

\* The rows of a table as a select through the session sees them.
View(table) == Apply(committed[table], pending[table])

\* The values of the three inserts.
ProfileRow(profile_data) ==
  [x_user_id |-> profile_data.x_user_id,
   followers_count |-> profile_data.followers_count,
   is_protected |-> profile_data.is_protected,
   last_updated_at |-> <<clock>>]

\* mutual_user_ids = [profile.x_user_id for profile in mutual]
IdList(profiles) == [i \in DOMAIN profiles |-> profiles[i].x_user_id]

ConnectionRow(x_user_id, mutual) ==
  [x_user_id |-> x_user_id, mutual_ids |-> IdList(mutual),
   discovered_at |-> <<clock>>]

PostsRow(profile) ==
  [x_user_id |-> profile.x_user_id, discovered_at |-> <<clock>>]

\* The latest recorded connection write of each writer.
Latest(old, new) == {c \in old : \A n \in new : n[1] # c[1]} \cup new

\* await db.commit() on the session of s
Commit(s) ==
  [s EXCEPT
     !.committed = [table \in DOMAIN s.committed |->
                      Apply(s.committed[table], s.pending[table])],
     !.pending = NoRows,
     !.durable = [upserts |-> s.durable.upserts \cup s.staged.upserts,
                  connections |-> Latest(s.durable.connections,
                                         s.staged.connections),
                  posts |-> s.durable.posts \cup s.staged.posts],
     !.staged = NoWrites]

\* await db.rollback() on the session of s
Rollback(s) == [s EXCEPT !.pending = NoRows, !.staged = NoWrites]

\* ------------------------------------------------- scraper: add_to_db
\* The x_user_id argument of a process's add_to_db call.
X(p) == IF p = 0 THEN user.x_user_id ELSE limited_mutuals[p].x_user_id

\* Where add_to_db starts: the loop over mutual when there is any.
Entered(mutual) == IF mutual = <<>> THEN "connect" ELSE "upsert"

\* One turn of the loop at line 131: await db.execute(stmt).
AddProfile(p) ==
  /\ apc[p] = "upsert"
  /\ LET profile_data == amutual[p][aidx[p]]
         executed ==
           [sc EXCEPT
              !.pending.profiles = Upsert(@, ProfileRow(profile_data)),
              !.staged.upserts = @ \cup {<<X(p), profile_data.x_user_id>>}]
     IN sc' = IF aidx[p] < Len(amutual[p])
              THEN [executed EXCEPT !.aidx[p] = @ + 1]
              ELSE [executed EXCEPT !.apc[p] = "connect"]
  /\ UNCHANGED <<rlVars, clVars, st, mu, ragVars>>

\* await db.execute(connection_stmt), and the test at line 180.
Connect(p) ==
  /\ apc[p] = "connect"
  /\ LET executed ==
           [sc EXCEPT
              !.pending.connections = Upsert(@, ConnectionRow(X(p), amutual[p])),
              !.staged.connections = Latest(@, {<<X(p), IdList(amutual[p])>>})]
     IN sc' = IF amutual[p] # <<>>
              THEN [executed EXCEPT !.apc[p] = "posts", !.aidx[p] = 1]
              ELSE [executed EXCEPT !.apc[p] = "commit186"]
  /\ UNCHANGED <<rlVars, clVars, st, mu, ragVars>>

\* A statement of add_to_db raises: the exception leaves add_to_db, is
\* caught in process_mutual, and ends scrape_connections in the crawl itself.
DbError(p) ==
  /\ apc[p] \in {"upsert", "connect"}
  /\ sc' = [sc EXCEPT !.apc[p] = "caught",
                      !.spc = IF p = 0 THEN "raised" ELSE @]
  /\ UNCHANGED <<rlVars, clVars, st, mu, ragVars>>

\* ---------------------------------- scraper: scrape_posts_for_profiles
\* A filter that also skips a profile with exactly the minimum followers.
LowValueInclusive(profile) == profile.followers_count <= MIN_FOLLOWERS_FOR_POSTS

\* profile.followers_count < MIN_FOLLOWERS_FOR_POSTS
LowValue(profile) == profile.followers_count < MIN_FOLLOWERS_FOR_POSTS

\* should_refresh_connections(discovered_at)
should_refresh_connections(discovered_at) ==
  is_stale(discovered_at, CONNECTION_FRESHNESS_HOURS, clock)

\* A policy that calls every PostsRecord due for a refresh.
AlwaysRefresh(discovered_at) == TRUE

\* should_refresh_posts(discovered_at)
should_refresh_posts(discovered_at) ==
  is_stale(discovered_at, POSTS_FRESHNESS_HOURS, clock)

\* posts_record and not should_refresh_posts(posts_record.discovered_at)
FreshPosts(profile) ==
  \E posts_record \in View("posts") :
    /\ posts_record.x_user_id = profile.x_user_id
    /\ ~should_refresh_posts(posts_record.discovered_at)

\* The three `continue`s at the head of the loop.
Skipped(profile) ==
  profile.is_protected \/ LowValue(profile) \/ FreshPosts(profile)

\* The profile the loop of process p is at.
Current(p) == amutual[p][aidx[p]]

\* The loop goes on to the next profile, or to the commit at line 120.
NextProfile(s, p) ==
  IF s.aidx[p] < Len(s.amutual[p])
  THEN [s EXCEPT !.aidx[p] = @ + 1, !.apc[p] = "posts"]
  ELSE [s EXCEPT !.apc[p] = "commit120"]

\* Lines 72-92: the profile is protected, low-value or has fresh posts.
PostsSkip(p) ==
  /\ apc[p] = "posts"
  /\ Skipped(Current(p))
  /\ sc' = NextProfile(
             IF Current(p).is_protected \/ LowValue(Current(p)) THEN sc
             ELSE [sc EXCEPT !.skipped_fresh[p] = @ + 1],
             p)
  /\ UNCHANGED <<rlVars, clVars, st, mu, ragVars>>

\* Line 96: client.get_user_posts_text(profile.x_user_id, count=50); got
\* is whether posts_text is non-empty (the client turns a failed request
\* into an empty list).
PostsFetch(p, got) ==
  /\ apc[p] = "posts"
  /\ ~Skipped(Current(p))
  /\ LET asked_for == [sc EXCEPT !.requested = @ \cup {Current(p).x_user_id}]
     IN sc' = IF got THEN [asked_for EXCEPT !.apc[p] = "store"]
              ELSE NextProfile(asked_for, p)
  /\ UNCHANGED <<rlVars, clVars, st, mu, ragVars>>

\* Lines 99-116: await db.execute(stmt) stores the posts, or raises and
\* the handler rolls the session back.
PostsStore(p, ok) ==
  /\ apc[p] = "store"
  /\ sc' = NextProfile(
             IF ok
             THEN [sc EXCEPT
                     !.pending.posts = Upsert(@, PostsRow(Current(p))),
                     !.staged.posts = @ \cup {<<X(p), Current(p).x_user_id>>},
                     !.posts_added[p] = @ + 1]
             ELSE [Rollback(sc) EXCEPT !.rollbacks = @ \cup {p}],
             p)
  /\ UNCHANGED <<rlVars, clVars, st, mu, ragVars>>

\* Line 120: await db.commit() at the end of scrape_posts_for_profiles.
Commit120(p) ==
  /\ apc[p] = "commit120"
  /\ sc' = [Commit(sc) EXCEPT !.apc[p] = "commit186"]
  /\ UNCHANGED <<rlVars, clVars, st, mu, ragVars>>

\* Line 186: await db.commit(), and add_to_db returns.
Commit186(p) ==
  /\ apc[p] = "commit186"
  /\ sc' = [Commit(sc) EXCEPT !.apc[p] = "done"]
  /\ UNCHANGED <<rlVars, clVars, st, mu, ragVars>>

\* ------------------------------------------ scraper: scrape_connections
\* A crawl that takes the mutuals in the order the provider listed them.
AsListed(profiles) == profiles

RECURSIVE ByCount(_, _)
\* The profiles with the follower counts given, from the largest count
\* down, those with equal counts in their order.
ByCount(profiles, counts) ==
  IF counts = {} THEN <<>>
  ELSE LET most == CHOOSE c \in counts : \A d \in counts : c >= d
       IN SelectSeq(profiles, LAMBDA p : p.followers_count = most)
            \o ByCount(profiles, counts \ {most})

\* sorted(mutual, key=lambda p: p.followers_count, reverse=True), which
\* keeps profiles with equal counts in their order.
SortedByFollowers(profiles) ==
  ByCount(profiles, {profiles[i].followers_count : i \in DOMAIN profiles})

\* sorted_mutuals[:MAX_SECOND_DEGREE_PROFILES]
Limited(sorted_mutuals) ==
  SubSeq(sorted_mutuals, 1, Min(Len(sorted_mutuals), MAX_SECOND_DEGREE_PROFILES))

\* A loop that hands all the remaining mutuals to one gather.
BatchUnbounded(i) == (i + 1)..Len(limited_mutuals)

\* A loop that hands every mutual up to the end of the batch to gather,
\* the ones of the earlier batches again.
BatchRepeating(i) == 1..Min(i + batch_size, Len(limited_mutuals))

\* The positions of batch = limited_mutuals[i:i + batch_size]
Batch(i) == (i + 1)..Min(i + batch_size, Len(limited_mutuals))

\* A task that returns what it had found when it failed.
ResultKept(j) == amutual[j]

\* What process_mutual returned: filtered_mutuals, or [] after a failure.
Result(j) == IF apc[j] = "done" THEN amutual[j] ELSE <<>>

RECURSIVE Extended(_, _)
\* for result in batch_results: second_degree_mutuals.extend(result)
Extended(list, tasks) ==
  IF tasks = <<>> THEN list
  ELSE Extended(list \o Result(Head(tasks)), Tail(tasks))

\* scrape_connections(user, db) is called with a new session.
Scrape ==
  /\ spc = "idle"
  /\ sc' = [sc EXCEPT !.spc = "retrieve", !.crawls = @ + 1]
  /\ UNCHANGED <<rlVars, clVars, st, mu, ragVars>>

\* Line 198: retrieve_connections(user.x_user_id) returns or raises, and
\* add_to_db is entered.
RootRetrieve(ok) ==
  /\ spc = "retrieve"
  /\ LET data == ConnectionsData(Following(user.x_user_id),
                                 Followers(user.x_user_id))
         walked == [sc EXCEPT !.discoveries = @ (+) SetToBag({user.x_user_id})]
     IN sc' = IF ok
              THEN [walked EXCEPT
                      !.first_degree = data.mutual,
                      !.amutual = [p \in {0} |-> data.mutual],
                      !.apc = [p \in {0} |-> Entered(data.mutual)],
                      !.aidx = [p \in {0} |-> Min(1, Len(data.mutual))],
                      !.posts_added = [p \in {0} |-> 0],
                      !.skipped_fresh = [p \in {0} |-> 0],
                      !.spc = "add"]
              ELSE [walked EXCEPT !.spc = "raised"]
  /\ UNCHANGED <<rlVars, clVars, st, mu, ragVars>>

\* Lines 205-218: add_to_db has returned; the mutuals are sorted and cut.
Select ==
  /\ spc = "add" /\ apc[0] = "done"
  /\ sc' = [sc EXCEPT
              !.limited_mutuals = Limited(SortedByFollowers(first_degree)),
              !.batch_start = 0,
              !.spc = "batch"]
  /\ UNCHANGED <<rlVars, clVars, st, mu, ragVars>>

\* Lines 239-242: the tasks of the next batch are handed to gather.
StartBatch ==
  /\ spc = "batch"
  /\ batch_start < Len(limited_mutuals)
  /\ LET batch == Batch(batch_start) \cap Procs
         started == DOMAIN apc \cup batch
     IN sc' = [sc EXCEPT
                 !.apc = [p \in started |->
                            IF p \in batch THEN "retrieve" ELSE apc[p]],
                 !.amutual = [p \in started |->
                                IF p \in batch THEN <<>> ELSE amutual[p]],
                 !.aidx = [p \in started |->
                             IF p \in batch THEN 0 ELSE aidx[p]],
                 !.posts_added = [p \in started |->
                                    IF p \in batch THEN 0 ELSE posts_added[p]],
                 !.skipped_fresh = [p \in started |->
                                      IF p \in batch THEN 0
                                      ELSE skipped_fresh[p]],
                 !.spc = "gather"]
  /\ UNCHANGED <<rlVars, clVars, st, mu, ragVars>>

\* A task that keeps the crawled user among the mutuals of a mutual.
Unfiltered(mutual) == mutual

\* [profile for profile in mutual_connections_data["mutual"]
\*  if profile.x_user_id != user.x_user_id]
Filtered(mutual) ==
  SelectSeq(mutual, LAMBDA profile : profile.x_user_id # user.x_user_id)

\* Lines 224-229 of process_mutual: retrieve_connections returns and the
\* crawled user is filtered out, or it raises and the task returns [].
TaskRetrieve(j, ok) ==
  /\ j # 0
  /\ apc[j] = "retrieve"
  /\ LET data == ConnectionsData(Following(X(j)), Followers(X(j)))
         filtered_mutuals == Filtered(data.mutual)
         walked == [sc EXCEPT !.discoveries = @ (+) SetToBag({X(j)})]
     IN sc' = IF ok
              THEN [walked EXCEPT
                      !.amutual[j] = filtered_mutuals,
                      !.apc[j] = Entered(filtered_mutuals),
                      !.aidx[j] = Min(1, Len(filtered_mutuals))]
              ELSE [walked EXCEPT !.apc[j] = "caught"]
  /\ UNCHANGED <<rlVars, clVars, st, mu, ragVars>>

\* Lines 242-247: gather returns when every task of the batch has.
EndBatch ==
  /\ spc = "gather"
  /\ \A j \in Batch(batch_start) : apc[j] \in {"done", "caught"}
  /\ sc' = [sc EXCEPT
              !.second_degree_mutuals =
                 Extended(second_degree_mutuals, Ascending(Batch(batch_start))),
              !.batch_start = batch_start + batch_size,
              !.spc = "batch"]
  /\ UNCHANGED <<rlVars, clVars, st, mu, ragVars>>

\* How the embedding stage of lines 251-268 goes: EmbeddingsService() raises
\* for a missing key (embeddings.py lines 21-26); the query or the commit
\* of generate_embeddings_for_profiles raises; no profile is selected;
\* every selected profile is embedded; every selected profile fails.
EmbeddingOutcomes == {"unconfigured", "raises", "nothing", "all", "none"}

\* batch_size=50 in the call of generate_embeddings_for_profiles
RagBatchSize == 50

\* list(set(all_profile_ids))
unique_ids == Ids(first_degree) \cup Ids(second_degree_mutuals)

\* The rows that the query of generate_embeddings_for_profiles can select
\* (embeddings.py lines 173-178).
Selectable == {row \in View("profiles") : row.x_user_id \in unique_ids}

\* embeddings_result after lines 254-268.
EmbeddingsResult(outcome) ==
  LET selected == Min(RagBatchSize, Cardinality(Selectable))
  IN  CASE outcome = "raises" ->
             [processed |-> 0, errors |-> Cardinality(unique_ids)]
        [] outcome = "all" -> [processed |-> selected, errors |-> 0]
        [] outcome = "none" -> [processed |-> 0, errors |-> selected]
        [] OTHER -> [processed |-> 0, errors |-> 0]

\* Lines 251-279: the embedding stage commits the session (embeddings.py
\* line 220) or ends before it, and scrape_connections returns; when the
\* constructor raises, unique_ids is not assigned, the handler of line 266
\* raises at len(unique_ids) and scrape_connections ends with its
\* UnboundLocalError.
Embed(outcome) ==
  /\ spc = "batch"
  /\ batch_start >= Len(limited_mutuals)
  /\ outcome \in {"all", "none"} => Selectable # {}
  /\ outcome = "nothing" => (Selectable = {} \/ crawls > 1)
  /\ LET embeddings_result == EmbeddingsResult(outcome)
         ended == IF outcome \in {"all", "none"} THEN Commit(sc) ELSE sc
     IN sc' = IF outcome = "unconfigured"
              THEN [ended EXCEPT !.spc = "unbound"]
              ELSE [ended EXCEPT
                      !.returned =
                         <<[mutual |-> first_degree,
                            mutual_count |-> Len(first_degree),
                            second_degree_mutuals |-> second_degree_mutuals,
                            second_degree_count |-> Len(second_degree_mutuals),
                            embeddings_generated |-> embeddings_result.processed,
                            embeddings_errors |-> embeddings_result.errors]>>,
                      !.spc = "returned"]
  /\ UNCHANGED <<rlVars, clVars, st, mu, ragVars>>

\* The waits between two crawls of the same user, in clock parts.
Waits ==
  {0, POSTS_FRESHNESS_HOURS * ClockParts, POSTS_FRESHNESS_HOURS * ClockParts + 1,
   CONNECTION_FRESHNESS_HOURS * ClockParts + 1}

\* scrape_connections(user, db) is called again, d later, with a new
\* session.
Again(d) ==
  /\ spc \in {"returned", "raised", "unbound"}
  /\ crawls < MaxCrawls
  /\ sc' = [CrawlIdle EXCEPT
              !.clock = clock + d,
              !.edges = edges,
              !.committed = committed,
              !.durable = durable,
              !.crawls = crawls + 1,
              !.spc = "retrieve"]
  /\ UNCHANGED <<rlVars, clVars, st, mu, ragVars>>

\* Between two crawls user stops following b.
Unfollow(b) ==
  /\ spc \in {"returned", "raised", "unbound"}
  /\ crawls < MaxCrawls
  /\ <<user.x_user_id, b>> \in edges
  /\ sc' = [sc EXCEPT !.edges = @ \ {<<user.x_user_id, b>>}]
  /\ UNCHANGED <<rlVars, clVars, st, mu, ragVars>>

\* An empty database and one of the given follow graphs.
InitScraper(networks) ==
  /\ LimiterInit /\ ClientAtRest /\ StaleAtRest /\ MutualAtRest
  /\ RagAtRest
  /\ sc \in {[CrawlIdle EXCEPT !.edges = network] : network \in networks}

\* A user with few mutuals, who have mutuals of their own.
Close == {Network(m, TRUE) : m \in 0..MaxRecrawled}

\* A user with more than one batch of mutuals.
Wide == {Network(MaxMutuals, FALSE)}

\* A user with few mutuals, who have none but user, or with one mutual,
\* who has more.
Plain == {Network(m, FALSE) : m \in 0..MaxRecrawled} \cup {Network(1, TRUE)}

InitCrawl == InitScraper(Close \cup Wide)

InitRecrawl == InitScraper(Plain)

NextCrawl ==
  \/ Scrape
  \/ \E ok \in BOOLEAN : RootRetrieve(ok)
  \/ \E p \in DOMAIN apc : AddProfile(p)
  \/ \E p \in DOMAIN apc : Connect(p)
  \/ \E p \in DOMAIN apc : DbError(p)
  \/ \E p \in DOMAIN apc : PostsSkip(p)
  \/ \E p \in DOMAIN apc, got \in BOOLEAN : PostsFetch(p, got)
  \/ \E p \in DOMAIN apc, ok \in BOOLEAN : PostsStore(p, ok)
  \/ \E p \in DOMAIN apc : Commit120(p)
  \/ \E p \in DOMAIN apc : Commit186(p)
  \/ Select
  \/ StartBatch
  \/ \E j \in DOMAIN apc, ok \in BOOLEAN : TaskRetrieve(j, ok)
  \/ EndBatch
  \/ \E outcome \in EmbeddingOutcomes : Embed(outcome)

NextRecrawl ==
  \/ NextCrawl
  \/ \E d \in Waits : Again(d)
  \/ \E b \in Users : Unfollow(b)

\* One crawl of a user with up to MaxMutuals mutuals.
SpecCrawl == InitCrawl /\ [][NextCrawl]_vars

\* Up to MaxCrawls crawls of a user with up to MaxRecrawled mutuals.
SpecRecrawl == InitRecrawl /\ [][NextRecrawl]_vars

\* ---------------------------------------------------------------- claims
Inside == {c \in Callers : pc[c] \in {"locked", "sleeping"}}

\* C1: at most one caller at a time is inside the refill / check / wait /
\* debit sequence of acquire, and while a caller sleeps for tokens nobody
\* changes tokens or restarts last_update.
C1_MutualExclusion ==
  /\ [](Cardinality(Inside) <= 1 /\ Inside = lock)
  /\ [][\A c \in Callers :
          (pc[c] = "sleeping" /\ pc'[c] = "sleeping")
            => (tokens' = tokens /\ elapsed' >= elapsed)]_vars

\* C1 witness: a second caller is queued on the lock while the first one
\* sleeps inside acquire.
C1_Witness ==
  \E c, d \in Callers :
    pc[c] = "sleeping" /\ wake[c] > 0 /\ pc[d] = "waiting" /\ blocked[d] > 0

\* C2: every call of acquire, whatever its cost and however many callers
\* queue on the lock, eventually returns.
C2_AcquireReturns == \A c \in Callers : InCall(c) ~> (pc[c] = "idle")

\* C2 witness: a call asking for more than the capacity sleeps while
\* another caller waits for the lock.
C2_Witness ==
  \E c, d \in Callers :
    pc[c] = "sleeping" /\ cost[c] > Capacity /\ pc[d] = "waiting"

\* (total_cost - initial_tokens) / rate, at least 0, in ticks
SeqWait == Max(0, seqCost * TicksPerToken - seqInit)

\* C3 as claimed: while the calls of the sequence cost at most capacity in
\* total, no call is blocked longer than (total_cost - initial_tokens)/rate
\* plus one jitter bound, and from a full bucket no call sleeps.
C3_Original ==
  seqCost <= Capacity =>
    /\ \A c \in Callers : InCall(c) => blocked[c] <= SeqWait + JitterMax
    /\ seqInit = Full => seqSleeps = 0

\* C3 amended: the jitter bound counts once for every call of the sequence
\* that slept.
C3_BlockedBound ==
  seqCost <= Capacity =>
    /\ \A c \in Callers :
         InCall(c) => blocked[c] <= SeqWait + JitterMax * seqSleeps
    /\ seqInit = Full => seqSleeps = 0

\* C3 witness: in a sequence within capacity, a call has been blocked for
\* longer than one jitter bound, behind another call that slept.
C3_Witness ==
  /\ seqCost <= Capacity
  /\ seqSleeps = 2
  /\ \E c \in Callers : pc[c] = "sleeping" /\ blocked[c] > SeqWait + JitterMax

\* _request has returned the JSON of a successful attempt.
Succeeded == cpc \in {"done", "next"} /\ dispatched > 0 /\ reqError = "none"

\* C4: every HTTP attempt of _request, first or retry, comes after one
\* acquire of one token of its own, none is dispatched without it, and a
\* call that succeeds on its k-th attempt has acquired exactly k tokens.
C4_TokenPerAttempt ==
  /\ cpc = "send" => acquired = dispatched + 1
  /\ cpc # "send" => acquired = dispatched
  /\ Succeeded => (dispatched = attempt + 1 /\ acquired = attempt + 1)

\* C4 witness: a call that succeeded on its third attempt.
C4_Witness == Succeeded /\ attempt = 2 /\ acquired = 3

\* C5: answered 429 on every attempt, _request makes exactly max_retries
\* attempts, sleeps 900 s between two attempts and not after the last, and
\* fails as rate limited; it never makes more than max_retries attempts.
C5_RateLimitedRetries ==
  /\ dispatched <= MaxRetries
  /\ reqError = "RateLimited" => dispatched = MaxRetries
  /\ (only429 /\ dispatched > 0) =>
       /\ waits = [i \in 1..Min(dispatched, MaxRetries - 1) |-> Cooldown]
       /\ dispatched = MaxRetries => reqError = "RateLimited"
       /\ dispatched < MaxRetries =>
            (reqError = "none" /\ cpc \in {"acquire", "send"})

\* C5 witness: the call has failed as rate limited after 429s only.
C5_Witness ==
  /\ only429 /\ reqError = "RateLimited"
  /\ dispatched = MaxRetries /\ waits = <<Cooldown, Cooldown>>

\* C6 as claimed: an operation whose request failed for good ends by
\* raising that failure to its caller, never by returning a result.
C6_Original ==
  (cpc \in {"done", "raised"} /\ reqError # "none")
    => (cpc = "raised" /\ error = reqError)

\* C7: get_users_batch with more than 100 ids raises a validation error
\* with no token acquired and no request dispatched; 100 ids are accepted.
C7_BatchCap ==
  op = "get_users_batch" =>
    /\ arg > BatchLimit =>
         /\ cpc = "raised" /\ error = "ValueError"
         /\ acquired = 0 /\ dispatched = 0 /\ asked = <<>>
    /\ arg <= BatchLimit =>
         /\ error # "ValueError"
         /\ cpc = "done" /\ reqError = "none" => Len(result) = arg

\* C7 witness: a call with 101 ids has been refused.
C7_Witness ==
  op = "get_users_batch" /\ arg = BatchLimit + 1 /\ cpc = "raised"

\* A walk of all pages: get_all_following / get_all_followers without
\* max_results.
WalkAll == op \in Walks /\ arg = 0

\* The next_token the provider sent with the page asked for with tok.
NextAfter(tok) == NextToken(EndpointOf(op), reqMax, tok)

\* C8 (what the walk has done so far): the first page is asked for without
\* a token, each later page with the next_token of the page before, no
\* page is asked for after one without next_token, the profiles collected
\* are the pages received, in order, and the result is all of them.
C8_WalkSoFar ==
  WalkAll =>
    /\ \A i \in 1..Len(asked) :
         /\ asked[i] = IF i = 1 THEN <<>> ELSE NextAfter(asked[i - 1])
         /\ i < Len(asked) => NextAfter(asked[i]) # <<>>
    /\ Len(all_users) <= total
    /\ all_users =
         [i \in 1..Len(all_users) |-> ParseUser(Item(EndpointOf(op), i))]
    /\ cpc = "next" =>
         (reqToken = NextAfter(asked[Len(asked)]) /\ reqToken # <<>>)
    /\ cpc = "done" =>
         /\ NextAfter(asked[Len(asked)]) = <<>>
         /\ result = ParseUsers(Listing(EndpointOf(op)))

\* C8: the walk without max_results follows next_token from page to page,
\* returns the concatenation of all pages, and ends.
C8_WalkAllPages ==
  /\ []C8_WalkSoFar
  /\ (WalkAll /\ cpc # "idle") ~> (cpc \in {"done", "raised"})

\* C8 witness: a walk over three pages has returned.
C8_Witness ==
  WalkAll /\ cpc = "done" /\ Len(asked) = 3 /\ Len(result) = 25

\* C9 as claimed: with max_results = m and at least m connections on the
\* provider's side, the result has exactly m profiles.
C9_Original ==
  (op \in Walks /\ arg # 0 /\ cpc = "done" /\ total >= arg)
    => Len(result) = arg

\* C10 as claimed: get_user_posts_text(user, count) returns the text of
\* the user's first count posts (all of them when there are fewer), in
\* provider order.
C10_Original ==
  (op = "get_user_posts_text" /\ cpc = "done" /\ reqError = "none")
    => result = [i \in 1..Min(arg, total) |-> RawTweet(i).text]

\* The age of the checked timestamp at the call, in clock parts.
Age == utcnow - timestamp[1]

\* C11: is_stale(None, H) is true for every H; for a timestamp it is true
\* exactly when now - timestamp is strictly more than H hours: a record
\* aged exactly H hours is fresh, is_stale(now, H) is false, and
\* is_stale(now - (H + 1) hours, H) is true.
C11_IsStale ==
  stale # <<>> =>
    /\ timestamp = <<>> => stale[1]
    /\ timestamp # <<>> =>
         /\ stale[1] <=> Age > max_age_hours * ClockParts
         /\ Age = max_age_hours * ClockParts => ~stale[1]
         /\ Age = 0 => ~stale[1]
         /\ Age = (max_age_hours + 1) * ClockParts => stale[1]

\* A record aged exactly H hours was checked and found fresh.
C11_Witness ==
  /\ stale = <<FALSE>>
  /\ timestamp # <<>>
  /\ Age = max_age_hours * ClockParts

Stored(u) == {row \in committed.connections : row.x_user_id = u}

\* C13: after any sequence of crawls a user has at most one ConnectionSet
\* row, holding exactly the mutual ids of the latest crawl of that user
\* whose write was committed: a member dropped since an earlier crawl is no
\* longer stored.
C13_Replaced ==
  \A u \in Users :
    /\ Cardinality(Stored(u)) <= 1
    /\ \A row \in Stored(u) : <<u, row.mutual_ids>> \in durable.connections
    /\ \A c \in durable.connections : c[1] = u => Stored(u) # {}

\* A second crawl, after user stopped following the second mutual that
\* the first crawl had stored, has committed the first mutual alone.
C13_Witness ==
  /\ crawls = 2
  /\ <<user.x_user_id, user.x_user_id + 2>> \notin edges
  /\ \E row \in committed.profiles : row.x_user_id = user.x_user_id + 2
  /\ \E row \in Stored(user.x_user_id) :
       row.mutual_ids = <<user.x_user_id + 1>>

\* The sub-crawls (process_mutual tasks) that have started and not finished.
InFlight == {j \in DOMAIN apc \ {0} : apc[j] \notin {"done", "caught"}}

\* The number of the batch the j-th selected mutual is processed in.
BatchOf(j) == (j - 1) \div batch_size

\* C14: in the second-degree phase at most 5 sub-crawls are in flight at
\* any time, and no sub-crawl of a batch is in flight before every
\* sub-crawl of the earlier batches has finished, returned or caught.
C14_Batches ==
  /\ Cardinality(InFlight) <= batch_size
  /\ \A j \in InFlight : \A k \in DOMAIN limited_mutuals :
       BatchOf(k) < BatchOf(j) => k \in DOMAIN apc /\ apc[k] \in {"done", "caught"}

\* The sub-crawl of the sixth mutual is in flight after the five of the
\* first batch finished, one of them with a caught failure.
C14_Witness ==
  /\ batch_size + 1 \in InFlight
  /\ \E k \in 1..batch_size : apc[k] = "caught"
  /\ \E k \in 1..batch_size : apc[k] = "done"

\* The processes whose add_to_db call has been entered and has not raised.
Writing == {p \in DOMAIN apc : apc[p] \notin {"retrieve", "caught"}}

\* C15 as claimed: for every user X written by add_to_db, the upserts of
\* X's mutual profiles and X's ConnectionSet become durable in the same
\* commit: in no reachable state is an upsert of the call committed while
\* the ConnectionSet of the call is not, whatever the interleaving of the
\* sub-crawls of a batch on the one session.
C15_Original ==
  \A p \in Writing : \A q \in Ids(amutual[p]) :
    <<X(p), q>> \in durable.upserts
      => <<X(p), IdList(amutual[p])>> \in durable.connections

RECURSIVE Contributed(_)
\* The number of profiles the first j selected mutuals contributed, a
\* failed one counting as none.
Contributed(j) ==
  IF j = 0 THEN 0
  ELSE Contributed(j - 1) + IF apc[j] = "caught" THEN 0 ELSE Len(amutual[j])

\* C16: a failure of fetching or persisting the sub-network of one selected
\* mutual is caught: scrape_connections never raises because of it, goes on
\* to every other selected mutual of the same and of later batches, counts
\* the failed mutual as contributing no profile, and returns.
C16_FailureIsolated ==
  /\ spc = "raised" => DOMAIN apc \subseteq {0}
  /\ spc \in {"batch", "gather"} => ENABLED NextCrawl
  /\ spc = "returned" =>
       /\ \A j \in DOMAIN limited_mutuals :
            /\ j \in DOMAIN apc
            /\ apc[j] \in {"done", "caught"}
            /\ CopiesIn(X(j), discoveries) = 1
       /\ returned[1].second_degree_count = Contributed(Len(limited_mutuals))

\* scrape_connections has returned after one sub-crawl of the first batch
\* failed; the four others of the batch and the one of the second batch
\* were carried out.
C16_Witness ==
  /\ spc = "returned"
  /\ batch_size + 1 \in DOMAIN apc
  /\ \E j \in 1..batch_size : apc[j] = "caught"
  /\ apc[batch_size + 1] = "done"
  /\ Cardinality({j \in 1..batch_size : apc[j] = "done"}) = batch_size - 1

\* C17 as claimed: when storing the posts of one profile fails inside
\* scrape_posts_for_profiles, only that write is rolled back: once the
\* enclosing add_to_db call has finished, the profile upserts and the
\* ConnectionSet it wrote before the failure are committed.
C17_Original ==
  \A p \in rollbacks :
    apc[p] = "done" =>
      /\ <<X(p), IdList(amutual[p])>> \in durable.connections
      /\ \A q \in Ids(amutual[p]) : <<X(p), q>> \in durable.upserts

\* The positions of its mutual list that the posts loop of a process has
\* gone past or is fetching for.
Passed(p) ==
  CASE apc[p] = "posts" -> 1..(aidx[p] - 1)
    [] apc[p] = "store" -> 1..aidx[p]
    [] apc[p] \in {"commit120", "commit186", "done"} -> DOMAIN amutual[p]
    [] OTHER -> {}

\* C18: scrape_posts_for_profiles requests the posts of no profile that is
\* protected or has fewer than 50 followers, and does request those of an
\* unprotected profile with 50 followers or more that it comes to and that
\* nobody has requested yet, exactly 50 followers included.
C18_PostsFilter ==
  /\ \A id \in requested :
       /\ ~RawUser(id).protected
       /\ RawUser(id).followers_count >= MIN_FOLLOWERS_FOR_POSTS
  /\ \A p \in DOMAIN apc : \A i \in Passed(p) :
       (~amutual[p][i].is_protected
          /\ amutual[p][i].followers_count >= MIN_FOLLOWERS_FOR_POSTS)
         => amutual[p][i].x_user_id \in requested

\* The posts of an unprotected profile with exactly 50 followers have been
\* requested, and a protected profile with more followers has been passed.
C18_Witness ==
  /\ \E id \in requested :
       RawUser(id).followers_count = MIN_FOLLOWERS_FOR_POSTS
  /\ 0 \in DOMAIN apc
  /\ \E i \in Passed(0) :
       /\ amutual[0][i].is_protected
       /\ amutual[0][i].followers_count > MIN_FOLLOWERS_FOR_POSTS

\* A ConnectionSet of the user is stored that is not due for a refresh.
FreshConnections(u) ==
  \E row \in Stored(u) : ~should_refresh_connections(row.discovered_at)

\* C19 as claimed: connection discovery walks no following or followers
\* list of a user whose stored ConnectionSet was discovered less than 168
\* hours ago: in a crawl that has not yet written the user's ConnectionSet,
\* a user with a fresh stored one has not been walked.
C19_Original ==
  (spc = "add" /\ apc[0] \in {"upsert", "connect"}
     /\ FreshConnections(user.x_user_id))
    => CopiesIn(user.x_user_id, discoveries) = 0

\* C20 as claimed: the second_degree_mutuals returned by scrape_connections
\* hold each profile id at most once, also when a profile is a mutual of
\* several processed first-degree connections, and second_degree_count is
\* the number of distinct ids.
C20_Original ==
  returned # <<>> =>
    LET second == returned[1].second_degree_mutuals
    IN /\ \A i, j \in DOMAIN second :
            i # j => second[i].x_user_id # second[j].x_user_id
       /\ returned[1].second_degree_count = Cardinality(Ids(second))

\* The second-degree profiles the tasks have found so far that are not
\* first-degree mutuals of user.
FoundOnly ==
  UNION {Ids(amutual[j]) : j \in DOMAIN apc \ {0}} \ Ids(first_degree)

\* C21: one run of scrape_connections walks the connections of user and of
\* selected first-degree mutuals of user only, each at most once: at most
\* 1 + min(100, number of mutuals) walks, none of a profile found only as a
\* second-degree connection; the selection keeps at most 100 mutuals
\* (checked on lists of 99, 100 and 101 entries).
C21_Discoveries ==
  /\ \A x \in BagToSet(discoveries) :
       /\ CopiesIn(x, discoveries) = 1
       /\ x = user.x_user_id
            \/ x \in Ids(first_degree) \cap Ids(limited_mutuals)
  /\ BagCardinality(discoveries)
       <= 1 + Min(MAX_SECOND_DEGREE_PROFILES, Len(first_degree))
  /\ \A x \in FoundOnly : CopiesIn(x, discoveries) = 0
  /\ Len(limited_mutuals) <= MAX_SECOND_DEGREE_PROFILES
  /\ spc = "idle" =>
       \A n \in (MAX_SECOND_DEGREE_PROFILES - 1)..(MAX_SECOND_DEGREE_PROFILES + 1) :
         Limited([i \in 1..n |-> i])
           = [i \in 1..Min(n, MAX_SECOND_DEGREE_PROFILES) |-> i]

\* C21 witness: a crawl has returned after walking user and each of two or
\* more mutuals once, and a profile was found only as a second-degree
\* connection.
C21_Witness ==
  /\ spc = "returned"
  /\ Len(first_degree) >= 2
  /\ BagCardinality(discoveries) = 1 + Len(first_degree)
  /\ FoundOnly # {}

\* ------------------------------------------------- the embedding pipeline
\* x_profiles.summary of each profile: Null or "text", what
\* generate_profile_summary returned
summary == em.summary
\* x_profiles.embedding of each profile: Null, or the text it is the vector
\* of, "summary" or "profile_text"
embedding == em.embedding
\* the profiles with a row in x_posts
posts == em.posts
\* generate_embeddings_for_all_profiles: "idle", "running" or "returned"
lpc == em.lpc
\* its argument batch_size
all_batch_size == em.all_batch_size
\* the profiles without an embedding when it was called
lacking == em.lacking
\* the profiles its batches have selected so far
attempted == em.attempted
total_processed == em.total_processed
total_errors == em.total_errors
\* the latest operation when it is generate_embeddings_for_profiles (its
\* batch_size, the profiles it selected, those whose embedding failed, and
\* the dict it returned) or the storing of posts (the profile, and whether
\* it had a summary and an embedding), else <<>>
last == em.last

\* What the embedder does for one profile: generate_embedding returns the
\* vector or raises. generate_profile_summary returns a text either way.
Outcomes == {"ok", "no_embedder"}

\* The profiles without an embedding.
NeedsEmbedding(e) == {p \in EProfiles : e.embedding[p] = Null}

\* The rows a query with LIMIT n and no ORDER BY may return: any n of the
\* candidates, here in the order of their keys.
Rows(set, n) == {Ascending(x) : x \in {y \in SUBSET set : Cardinality(y) = n}}

\* generate_embeddings_for_profiles, the query: embedding IS NULL, restricted
\* to x_user_ids when the list is given and not empty, LIMIT batch_size.
\* x_user_ids is <<>> for None, else <<the set of ids>>.
Selected(e, x_user_ids, limit) ==
  LET candidates == IF x_user_ids = <<>> \/ x_user_ids[1] = {}
                    THEN NeedsEmbedding(e)
                    ELSE NeedsEmbedding(e) \cap x_user_ids[1]
  IN  Rows(candidates, Min(limit, Cardinality(candidates)))

\* generate_embeddings_for_profiles, the loop over profiles from position i:
\* the summary, then the embedding of the summary, then the UPDATE of both
\* columns; an exception of the embedder is caught and counted.
RECURSIVE ProcessProfiles(_, _, _, _)
ProcessProfiles(r, profiles, outcome, i) ==
  IF i > Len(profiles) THEN r
  ELSE LET p == profiles[i]
       IN  IF outcome[p] = "no_embedder"
           THEN ProcessProfiles([r EXCEPT !.errors = @ + 1],
                                profiles, outcome, i + 1)
           ELSE ProcessProfiles(
                  [r EXCEPT !.summary[p] = "text",
                            !.embedding[p] = "summary",
                            !.processed = @ + 1],
                  profiles, outcome, i + 1)

\* A pipeline that does not count the profiles whose embedding failed.
GenerateForUncounted(e, profiles, outcome) ==
  LET r == ProcessProfiles([summary |-> e.summary, embedding |-> e.embedding,
                            processed |-> 0, errors |-> 0],
                           profiles, outcome, 1)
  IN  [summary |-> r.summary, embedding |-> r.embedding,
       processed |-> r.processed, errors |-> 0,
       total |-> IF profiles = <<>> THEN <<>> ELSE <<Len(profiles)>>]

\* generate_embeddings_for_profiles(db, x_user_ids, batch_size) on the
\* selected rows, committed: the columns and the returned dict (total is
\* <<>> when the dict has no such key).
GenerateFor(e, profiles, outcome) ==
  IF profiles = <<>>
  THEN [summary |-> e.summary, embedding |-> e.embedding,
        processed |-> 0, errors |-> 0, total |-> <<>>]
  ELSE LET r == ProcessProfiles([summary |-> e.summary,
                                 embedding |-> e.embedding,
                                 processed |-> 0, errors |-> 0],
                                profiles, outcome, 1)
       IN  [summary |-> r.summary, embedding |-> r.embedding,
            processed |-> r.processed, errors |-> r.errors,
            total |-> <<Len(profiles)>>]

\* The range of a sequence.
Range(f) == {f[i] : i \in DOMAIN f}

\* Another operation runs.
Other(e) == [e EXCEPT !.last = <<>>]

\* scrape_posts_for_profiles stores the posts of a profile whose stored
\* posts are missing or stale (lines 94-111, committed at line 120).
StorePosts(p) ==
  /\ em' = [em EXCEPT
              !.posts = @ \cup {p},
              !.last = <<[op |-> "store", profile |-> p,
                          had |-> summary[p] # Null /\ embedding[p] # Null]>>]
  /\ UNCHANGED <<rlVars, clVars, st, mu, sc, pw>>

\* One call of generate_embeddings_for_profiles outside the loop of
\* generate_embeddings_for_all_profiles.
GenerateEmbeddingsForProfiles(x_user_ids, limit, profiles, outcome) ==
  /\ profiles \in Selected(em, x_user_ids, limit)
  /\ LET r == GenerateFor(em, profiles, outcome)
     IN  em' = [Other(em) EXCEPT
                  !.summary = r.summary,
                  !.embedding = r.embedding,
                  !.last = <<[op |-> "generate",
                              batch_size |-> limit,
                              profiles |-> profiles,
                              failed |-> {p \in Range(profiles) :
                                            outcome[p] = "no_embedder"},
                              processed |-> r.processed,
                              errors |-> r.errors,
                              total |-> r.total]>>]
  /\ UNCHANGED <<rlVars, clVars, st, mu, sc, pw>>

\* generate_embeddings_for_all_profiles(db, batch_size) is called.
StartAll(limit) ==
  /\ lpc = "idle"
  /\ em' = [em EXCEPT !.lpc = "running", !.all_batch_size = limit,
                      !.lacking = NeedsEmbedding(em), !.attempted = {},
                      !.total_processed = 0, !.total_errors = 0,
                      !.last = <<>>]
  /\ UNCHANGED <<rlVars, clVars, st, mu, sc, pw>>

\* One turn of its loop: a batch, the totals, and the test
\* result["processed"] < batch_size.
AllBatch(profiles, outcome) ==
  /\ lpc = "running"
  /\ profiles \in Selected(em, <<>>, all_batch_size)
  /\ LET r == GenerateFor(em, profiles, outcome)
     IN  em' = [em EXCEPT
                  !.summary = r.summary,
                  !.embedding = r.embedding,
                  !.attempted = @ \cup Range(profiles),
                  !.total_processed = @ + r.processed,
                  !.total_errors = @ + r.errors,
                  !.lpc = IF r.processed < all_batch_size
                          THEN "returned" ELSE "running",
                  !.last = <<>>]
  /\ UNCHANGED <<rlVars, clVars, st, mu, sc, pw>>

\* Its caller has the totals.
AllReturn ==
  /\ lpc = "returned"
  /\ em' = [em EXCEPT !.lpc = "idle", !.all_batch_size = 0, !.lacking = {},
                      !.attempted = {}, !.total_processed = 0,
                      !.total_errors = 0]
  /\ UNCHANGED <<rlVars, clVars, st, mu, sc, pw>>

\* POST /regenerate/{x_user_id} for a stored profile: the embedding of
\* create_profile_text(profile) is assigned and committed; an exception of
\* the embedder rolls back.
RegenerateEmbedding(p, ok) ==
  /\ em' = IF ok THEN [Other(em) EXCEPT !.embedding[p] = "profile_text"]
           ELSE Other(em)
  /\ UNCHANGED <<rlVars, clVars, st, mu, sc, pw>>

\* The UPDATE that sets summary and embedding of the given profiles to NULL.
Cleared(e, ids) ==
  [e EXCEPT !.summary = [p \in EProfiles |->
                           IF p \in ids THEN Null ELSE @[p]],
            !.embedding = [p \in EProfiles |->
                             IF p \in ids THEN Null ELSE @[p]]]

\* generate_rag, the rows of its query: the profiles of all_profile_ids
\* without an embedding once those with posts are cleared.
ToGenerate(e, all_profile_ids) ==
  NeedsEmbedding(Cleared(e, all_profile_ids \cap e.posts))
    \cap all_profile_ids

\* generate_rag for a user whose first and second degree connections are
\* all_profile_ids (at most BATCH_SIZE of them): the profiles with posts are
\* cleared, then every profile of the batch without an embedding gets its
\* summary and the embedding of the summary in one UPDATE, unless its task
\* raised.
Generated(e, all_profile_ids, outcome) ==
  LET c == Cleared(e, all_profile_ids \cap e.posts)
      done == {p \in DOMAIN outcome : outcome[p] # "no_embedder"}
  IN  [c EXCEPT !.summary = [p \in EProfiles |->
                               IF p \in done THEN "text" ELSE @[p]],
                !.embedding = [p \in EProfiles |->
                                 IF p \in done THEN "summary" ELSE @[p]]]

GenerateRag(all_profile_ids, outcome) ==
  /\ em' = Generated(Other(em), all_profile_ids, outcome)
  /\ UNCHANGED <<rlVars, clVars, st, mu, sc, pw>>

\* regenerate_rag: with force every profile of all_profile_ids is cleared,
\* then generate_rag runs.
RegenerateRag(all_profile_ids, force, outcome) ==
  /\ em' = Generated(IF force THEN Cleared(Other(em), all_profile_ids)
                     ELSE Other(em),
                     all_profile_ids, outcome)
  /\ UNCHANGED <<rlVars, clVars, st, mu, sc, pw>>

BatchSizes == 1..MaxBatchSize

\* The first and second degree connections of the users who ask: one has
\* none, the other all profiles but the last.
Graphs == {{}, 1..(MaxProfiles - 1)}

\* x_user_ids: None, or the list of a crawl's unique ids.
IdLists == {<<>>} \cup {<<g>> : g \in Graphs}

InitEmbed ==
  /\ LimiterInit /\ ClientAtRest /\ StaleAtRest /\ MutualAtRest
  /\ ScraperAtRest /\ RagAtRest

NextEmbed ==
  \/ \E p \in EProfiles : StorePosts(p)
  \/ \E ids \in IdLists, limit \in BatchSizes :
       \E profiles \in Selected(em, ids, limit) :
         \E outcome \in [Range(profiles) -> Outcomes] :
           GenerateEmbeddingsForProfiles(ids, limit, profiles, outcome)
  \/ \E p \in EProfiles, ok \in BOOLEAN : RegenerateEmbedding(p, ok)
  \/ \E ids \in Graphs :
       \E outcome \in [ToGenerate(em, ids) -> Outcomes] :
         GenerateRag(ids, outcome)
  \/ \E ids \in Graphs, force \in BOOLEAN :
       \E outcome \in [ToGenerate(IF force THEN Cleared(em, ids) ELSE em,
                                   ids) -> Outcomes] :
         RegenerateRag(ids, force, outcome)

\* The writers of summaries and embeddings on a table of MaxProfiles
\* profiles.
SpecEmbed == InitEmbed /\ [][NextEmbed]_vars

\* Some profiles have a summary and its embedding, the others neither.
InitAll ==
  /\ LimiterInit /\ ClientAtRest /\ StaleAtRest /\ MutualAtRest
  /\ ScraperAtRest /\ PathAtRest
  /\ em \in {[EmbedIdle EXCEPT
                !.summary = [p \in EProfiles |->
                               IF p \in done THEN "text" ELSE Null],
                !.embedding = [p \in EProfiles |->
                                 IF p \in done THEN "summary" ELSE Null]] :
               done \in SUBSET EProfiles}

NextAll ==
  \/ \E limit \in BatchSizes : StartAll(limit)
  \/ \E profiles \in Selected(em, <<>>, all_batch_size) :
       \E outcome \in [Range(profiles) -> Outcomes] :
         AllBatch(profiles, outcome)
  \/ AllReturn

\* generate_embeddings_for_all_profiles on a table of MaxProfiles profiles,
\* with nothing else writing.
SpecAll == InitAll /\ [][NextAll]_vars

\* C22: after any sequence of generate_embeddings_for_profiles, generate_rag,
\* regenerate_rag and regenerate_embedding no stored profile has an
\* embedding and no summary.
C22_Original ==
  \A p \in EProfiles : embedding[p] # Null => summary[p] # Null

\* C23: once posts are stored for a profile that had a summary and an
\* embedding, the profile has neither and the query for the profiles without
\* an embedding selects it.
C23_Original ==
  \A l \in Range(last) :
    l.op = "store" /\ l.had =>
      /\ summary[l.profile] = Null
      /\ l.profile \in NeedsEmbedding(em)

\* C24: when generate_embeddings_for_all_profiles returns, every profile
\* that had no embedding when it was called has been selected by one of its
\* batches.
C24_Original == lpc = "returned" => lacking \subseteq attempted

\* C25: after generate_embeddings_for_profiles, every selected profile whose
\* embedding failed has no summary and no embedding, every other selected
\* profile has both, and when profiles were selected processed + errors =
\* total = the number selected <= batch_size, errors counting the failures.
C25_PartialSuccess ==
  \A l \in Range(last) :
    l.op = "generate" =>
      /\ \A p \in l.failed : summary[p] = Null /\ embedding[p] = Null
      /\ \A p \in Range(l.profiles) \ l.failed :
           summary[p] # Null /\ embedding[p] # Null
      /\ l.errors = Cardinality(l.failed)
      /\ l.profiles # <<>> =>
           /\ l.total = <<Len(l.profiles)>>
           /\ l.processed + l.errors = Len(l.profiles)
           /\ Len(l.profiles) <= l.batch_size

\* A batch whose first profile failed and whose second was processed.
C25_Witness ==
  \E l \in Range(last) :
    /\ l.op = "generate"
    /\ Len(l.profiles) >= 2
    /\ l.profiles[1] \in l.failed
    /\ l.profiles[2] \notin l.failed
    /\ l.processed >= 1
    /\ l.errors >= 1

\* ------------------------------------------------ generate_profile_summary
\* one call of generate_profile_summary: <<>>, or <<the profile, the posts
\* and what the summarizer does>>
call == em.call
\* <<>> before it returns, then <<what it returned or that it raised>>
ret == em.ret

\* A text is the sequence of its parts, without the separators between them.
\* An optional field of a profile is <<>> for None or "" and <<x>> otherwise.
SummaryProfiles ==
  [name : {<<>>, <<"name">>}, username : {<<"username">>},
   bio : {<<>>, <<"bio">>}, location : {<<>>, <<"location">>},
   followers_count : {InfluentialAbove, InfluentialAbove + 1},
   verified : BOOLEAN]

\* The argument posts: <<>> for None, else <<the list>>, the latest first.
PostLists ==
  {<<>>} \cup {<<[i \in 1..n |-> <<"post", i>>]>> :
                 n \in {0, 1, SamplePosts, MaxPosts}}

\* What the summarizer does: a 200 with the expected body, another status, no
\* answer in 30 seconds, a connection error, or a 200 with another body.
Responses == {"ok", "non200", "timeout", "network", "malformed"}

\* create_profile_text(profile)
create_profile_text(profile) ==
  (IF profile.name # <<>> THEN profile.name ELSE <<>>)
  \o (IF profile.username # <<>> THEN <<"@" \o profile.username[1]>> ELSE <<>>)
  \o (IF profile.bio # <<>> THEN profile.bio ELSE <<>>)
  \o (IF profile.location # <<>>
      THEN <<"Location: " \o profile.location[1]>> ELSE <<>>)
  \o (IF profile.followers_count > InfluentialAbove
      THEN <<"influential user">> ELSE <<>>)
  \o (IF profile.verified THEN <<"verified account">> ELSE <<>>)

\* A summary that samples every post.
generate_profile_summary_unsampled(profile, posts_arg, response) ==
  [raised |-> FALSE,
   text |-> IF response = "ok" THEN <<"content">>
            ELSE create_profile_text(profile)
                 \o (IF posts_arg # <<>> /\ Len(posts_arg[1]) > 0
                     THEN <<"Recent Posts/Tweets:">> \o posts_arg[1]
                     ELSE <<>>)]

\* generate_profile_summary(profile, posts), given what the summarizer does
generate_profile_summary(profile, posts_arg, response) ==
  LET profile_text == create_profile_text(profile)
      posts_text ==
        IF posts_arg # <<>> /\ Len(posts_arg[1]) > 0
        THEN LET sample_posts ==
                   IF Len(posts_arg[1]) > SamplePosts
                   THEN SubSeq(posts_arg[1], 1, SamplePosts)
                   ELSE posts_arg[1]
             IN  <<"Recent Posts/Tweets:">> \o sample_posts
        ELSE <<>>
      fallback == profile_text \o (IF posts_text # <<>> THEN posts_text ELSE <<>>)
  IN  CASE response = "ok" -> [raised |-> FALSE, text |-> <<"content">>]
        [] response = "non200" -> [raised |-> FALSE, text |-> fallback]
        \* httpx or response.json() or the subscripts raised: except Exception
        [] OTHER -> [raised |-> FALSE, text |-> fallback]

\* The call returns.
Summarize ==
  /\ call # <<>>
  /\ ret = <<>>
  /\ em' = [em EXCEPT !.ret = <<generate_profile_summary(
                                  call[1].profile, call[1].posts,
                                  call[1].response)>>]
  /\ UNCHANGED <<rlVars, clVars, st, mu, sc, pw>>

InitSummary ==
  /\ LimiterInit /\ ClientAtRest /\ StaleAtRest /\ MutualAtRest
  /\ ScraperAtRest /\ PathAtRest
  /\ em \in {[EmbedIdle EXCEPT !.call = <<c>>] :
               c \in [profile : SummaryProfiles, posts : PostLists,
                      response : Responses]}

NextSummary == Summarize

\* One call of generate_profile_summary.
SpecSummary == InitSummary /\ [][NextSummary]_vars

\* C26: when the summarizer is unavailable (another status than 200, a
\* timeout, a network error or a malformed body) generate_profile_summary
\* does not raise and returns create_profile_text(profile) followed, when
\* there are posts, by the first 10 of them at most; the text is the same
\* whichever way the summarizer is unavailable.
C26_Fallback ==
  \A c \in Range(call), r \in Range(ret) :
    c.response # "ok" =>
      LET pt == create_profile_text(c.profile)
          n == IF c.posts = <<>> THEN 0 ELSE Len(c.posts[1])
      IN  /\ ~r.raised
          /\ Len(r.text) >= Len(pt)
          /\ SubSeq(r.text, 1, Len(pt)) = pt
          /\ n = 0 => r.text = pt
          /\ n > 0 =>
               /\ Len(r.text) = Len(pt) + 1 + Min(n, SamplePosts)
               /\ \A i \in 1..Min(n, SamplePosts) :
                    r.text[Len(pt) + 1 + i] = c.posts[1][i]
          /\ \A other \in Responses \ {"ok"} :
               generate_profile_summary(c.profile, c.posts, other) = r

\* The summarizer answered with a malformed body for a verified, influential
\* profile with more than 10 posts.
C26_Witness ==
  \E c \in Range(call), r \in Range(ret) :
    /\ c.response = "malformed"
    /\ c.posts # <<>>
    /\ Len(c.posts[1]) > SamplePosts
    /\ c.profile.verified
    /\ c.profile.followers_count > InfluentialAbove
    /\ Len(r.text) = Len(create_profile_text(c.profile)) + 1 + SamplePosts

\* ------------------------------------------------------ influence pathways
\* x_connections: of each user <<>> (no row) or <<the set of its mutual_ids>>
x_connections == pw.connections
\* x_profiles: of each user <<>> (no row) or <<the row>>
x_profiles == pw.profiles
\* <<>> before analyze_influence_pathways answers, then <<what it answered>>
response == pw.response
\* <<>>, then <<what steps 1 to 3 looked up and found>>
search == pw.search

\* The user who asks, the user to reach, and the users who may link them.
You == 1
Target == 2
Candidates == 3..(2 + MaxBridges)
PathUsers == {You, Target} \cup Candidates

\* A score s is held as the integer s * Points, exact for the profiles below.
Points == 30
Hundred == 100 * Points

\* An embedding is a vector of two integers; the column is <<>> for NULL,
\* else <<the vector>>, the vector <<>> being the empty list.
Dot(a, b) == a[1] * b[1] + a[2] * b[2]

\* np.linalg.norm, for the vectors whose norm is an integer
Norm(v) == CHOOSE n \in 0..10 : n * n = Dot(v, v)

\* np.log10, for the powers of ten
Log10(n) == CHOOSE k \in 0..9 : 10 ^ k = n

\* `if embedding`: neither None nor an empty list
Truthy(column) == column # <<>> /\ column[1] # <<>>

\* calculate_embedding_similarity(embedding1, embedding2) * 100
calculate_embedding_similarity(embedding1, embedding2) ==
  IF ~Truthy(embedding1) \/ ~Truthy(embedding2) THEN 0
  ELSE LET vec1 == embedding1[1]
           vec2 == embedding2[1]
       IN  IF Norm(vec1) = 0 \/ Norm(vec2) = 0 THEN 0
           ELSE (Hundred * Dot(vec1, vec2)) \div (Norm(vec1) * Norm(vec2))

\* calculate_influence_score(profile)
calculate_influence_score(profile) ==
  LET follower_score ==
        Min(Hundred,
            (Log10(profile.followers_count + 10) * Hundred) \div 6)
  IN  IF profile.verified
      THEN Min(Hundred, (follower_score * 12) \div 10)
      ELSE follower_score

\* calculate_engagement_quality(profile)
calculate_engagement_quality(profile) ==
  LET followers_n == profile.followers_count
      following_n == profile.following_count
      distance == IF following_n >= followers_n THEN following_n - followers_n
                  ELSE followers_n - following_n
      ratio_score ==
        IF followers_n > 0
        THEN IF following_n < 2 * followers_n
             THEN Hundred - (Hundred * distance) \div followers_n
             ELSE 30 * Points
        ELSE 50 * Points
      activity_score ==
        Min(Hundred, (Log10(profile.tweet_count + 10) * Hundred) \div 5)
  IN  IF profile.is_protected THEN 0
      ELSE (ratio_score * 4 + activity_score * 6) \div 10

\* An overall_score that leaves the relationship of the bridge with the
\* target out.
WeightedWithoutBridge(topic, bridge, influence, engagement, your) ==
  topic * TopicWeight + influence * InfluenceWeight
    + engagement * EngagementWeight + your * YourWeight

\* overall_score * 100, from topic_alignment, bridge_relationship,
\* influence, engagement and your_relationship
Weighted(topic, bridge, influence, engagement, your) ==
  topic * TopicWeight + bridge * BridgeWeight + influence * InfluenceWeight
    + engagement * EngagementWeight + your * YourWeight

\* The BridgeScore of one bridge with a stored profile (lines 207-279).
BridgeScore(bridge_id, bridge_profile, target_profile) ==
  LET topic_alignment ==
        IF Truthy(bridge_profile.embedding) /\ Truthy(target_profile.embedding)
        THEN calculate_embedding_similarity(bridge_profile.embedding,
                                            target_profile.embedding)
        ELSE NeutralTopic * Points
      your_relationship ==
        Min(Hundred, (bridge_profile.followers_count * 10 * Points) \div 1000)
      bridge_relationship == topic_alignment
      influence == calculate_influence_score(bridge_profile)
      engagement == calculate_engagement_quality(bridge_profile)
  IN  [bridge_user_id |-> bridge_id,
       overall_score |-> Weighted(topic_alignment, bridge_relationship,
                                  influence, engagement, your_relationship),
       relationship_strength_your_side |-> your_relationship,
       relationship_strength_their_side |-> bridge_relationship,
       topic_alignment |-> topic_alignment,
       influence_score |-> influence,
       engagement_quality |-> engagement]

\* list.sort(key = overall_score, reverse = True): equal scores keep their
\* order.
RECURSIVE SortedByScore(_)
SortedByScore(list) ==
  IF list = <<>> THEN <<>>
  ELSE LET x == list[Len(list)]
           sorted == SortedByScore(SubSeq(list, 1, Len(list) - 1))
           ahead == Cardinality({i \in DOMAIN sorted :
                                   sorted[i].overall_score >= x.overall_score})
       IN  SubSeq(sorted, 1, ahead) \o <<x>>
             \o SubSeq(sorted, ahead + 1, Len(sorted))

\* The orders in which a set may be iterated.
Orders(set) ==
  {f \in [1..Cardinality(set) -> set] :
     \A i, j \in DOMAIN f : i # j => f[i] # f[j]}

NotFound(detail) == [status |-> 404, detail |-> detail]

\* A 404 raised in steps 1 to 3, after looking up the ConnectionSets of
\* looked_up.
Raised(detail, looked_up) ==
  [status |-> 404, detail |-> detail, looked_up |-> looked_up]

RECURSIVE Subsets(_, _)
\* The subsets of S with k members.
Subsets(S, k) ==
  IF k = 0 THEN {{}}
  ELSE UNION {{x \cup {e} : e \in {y \in S : \A z \in x : y > z}} :
                x \in Subsets(S, k - 1)}

\* A sample that stops one id later.
SampledOneMore(ids) ==
  {ids \ rest :
     rest \in Subsets(ids, Cardinality(ids)
                             - Min(PathwaySample + 1, Cardinality(ids)))}

\* list(your_1st_degree)[:100]: a set has no order, so any 100 of a
\* larger set, and all of a smaller one.
Sampled(ids) ==
  {ids \ rest :
     rest \in Subsets(ids, Cardinality(ids)
                             - Min(PathwaySample, Cardinality(ids)))}

\* A search that takes every first-degree connection with a ConnectionSet
\* for a bridge to a target without one.
MutualBridgesUntested(db, x_user_id, target_user_id) ==
  IF db.connections[x_user_id] = <<>>
  THEN {Raised("No connections found for user", {})}
  ELSE LET linked == {id \in db.connections[x_user_id][1] :
                        db.connections[id] # <<>>}
           both == IF db.connections[target_user_id] = <<>> THEN linked
                   ELSE db.connections[x_user_id][1]
                          \cap db.connections[target_user_id][1]
       IN  IF both = {}
           THEN {Raised("No path found to target user", {})}
           ELSE {[status |-> 200, mutual_bridges |-> both, looked_up |-> {}]}

\* Steps 1 to 3: the sets mutual_bridges may be, or the 404 raised, each
\* with the ids whose ConnectionSet the loop at line 157 looked up.
MutualBridges(db, x_user_id, target_user_id) ==
  IF db.connections[x_user_id] = <<>>
  THEN {Raised("No connections found for user", {})}
  ELSE LET your_1st_degree == db.connections[x_user_id][1]
       IN  IF db.connections[target_user_id] = <<>>
           THEN {LET bridges ==
                       {id \in sample :
                          /\ db.connections[id] # <<>>
                          /\ target_user_id \in db.connections[id][1]}
                 IN  IF bridges = {}
                     THEN Raised("No path found to target user", sample)
                     ELSE [status |-> 200, mutual_bridges |-> bridges,
                           looked_up |-> sample] :
                   sample \in Sampled(your_1st_degree)}
           ELSE LET mutual_bridges ==
                      your_1st_degree \cap db.connections[target_user_id][1]
                IN  IF mutual_bridges = {}
                    THEN {Raised("No mutual connections found between you and target", {})}
                    ELSE {[status |-> 200, mutual_bridges |-> mutual_bridges,
                           looked_up |-> {}]}

\* Steps 4 to 6 for one order of iteration of mutual_bridges.
Ranked(db, order, x_user_id, target_user_id) ==
  LET all_ids == Range(order) \cup {x_user_id, target_user_id}
      data == {id \in all_ids : db.profiles[id] # <<>>}
  IN  IF data = {} THEN NotFound("Profile data not found")
      ELSE IF db.profiles[target_user_id] = <<>>
      THEN NotFound("Target profile not found")
      ELSE LET stored == SelectSeq(order, LAMBDA id : db.profiles[id] # <<>>)
               scored_bridges ==
                 [i \in DOMAIN stored |->
                    BridgeScore(stored[i], db.profiles[stored[i]][1],
                                db.profiles[target_user_id][1])]
           IN  [status |-> 200,
                bridges |-> SortedByScore(scored_bridges),
                total_bridges_found |-> Len(scored_bridges)]

\* The runs of analyze_influence_pathways(request): what steps 1 to 3
\* looked up and found, and the response.
Runs(db, x_user_id, target_user_id) ==
  UNION {{[search |-> found, response |-> r] :
            r \in IF found.status = 404 THEN {NotFound(found.detail)}
                  ELSE {Ranked(db, order, x_user_id, target_user_id) :
                          order \in Orders(found.mutual_bridges)}} :
           found \in MutualBridges(db, x_user_id, target_user_id)}

\* analyze_influence_pathways(request): what it may answer.
analyze_influence_pathways(db, x_user_id, target_user_id) ==
  {run.response : run \in Runs(db, x_user_id, target_user_id)}

\* POST /pathways/analyze from You for Target is answered.
Analyze ==
  /\ response = <<>>
  /\ \E run \in Runs(pw, You, Target) :
       pw' = [pw EXCEPT !.search = <<run.search>>,
                        !.response = <<run.response>>]
  /\ UNCHANGED <<rlVars, clVars, st, mu, sc, em>>

\* A stored profile: an embedding close to the target's, 990 followers and
\* as many followed, 90 posts.
Plain200 ==
  [embedding |-> <<<<4, 3>>>>, followers_count |-> 990,
   following_count |-> 990, tweet_count |-> 90,
   verified |-> FALSE, is_protected |-> FALSE]

\* The ConnectionSets: You and Target have none or any set of candidates;
\* when Target has none, each candidate has none, one without Target or one
\* with Target.
ConnectionWorlds ==
  LET sets == {<<>>} \cup {<<x>> : x \in SUBSET Candidates}
      world(y, t, c) ==
        [u \in PathUsers |->
           IF u = You THEN y ELSE IF u = Target THEN t ELSE c[u]]
  IN  {world(y, t, [b \in Candidates |-> <<{You}>>]) :
         y \in sets, t \in sets \ {<<>>}}
      \cup {world(y, <<>>, c) :
              y \in sets,
              c \in [Candidates -> {<<>>, <<{You}>>, <<{You, Target}>>}]}

\* Any of the users may lack a profile row.
InitPath ==
  /\ LimiterInit /\ ClientAtRest /\ StaleAtRest /\ MutualAtRest
  /\ ScraperAtRest /\ em = EmbedIdle
  /\ pw \in {[connections |-> c,
              profiles |-> [u \in PathUsers |->
                              IF u \in rows THEN <<Plain200>> ELSE <<>>],
              search |-> <<>>, response |-> <<>>] :
               c \in ConnectionWorlds, rows \in SUBSET PathUsers}

NextPath == Analyze

\* One request, on any stored graph of MaxBridges candidates.
SpecPath == InitPath /\ [][NextPath]_vars

\* The profiles a bridge may have: Plain200; one without an embedding; a
\* verified one with 99,990 followers who follows nobody; a protected one
\* without followers; a verified one with an empty embedding who follows
\* twice as many as follow it; one whose embedding is the zero vector.
BridgeKinds ==
  {Plain200,
   [Plain200 EXCEPT !.embedding = <<>>],
   [embedding |-> <<<<0, 5>>>>, followers_count |-> 99990,
    following_count |-> 0, tweet_count |-> 999990,
    verified |-> TRUE, is_protected |-> FALSE],
   [embedding |-> <<<<5, 0>>>>, followers_count |-> 0,
    following_count |-> 990, tweet_count |-> 0,
    verified |-> FALSE, is_protected |-> TRUE],
   [embedding |-> <<<<>>>>, followers_count |-> 990,
    following_count |-> 1980, tweet_count |-> 9990,
    verified |-> TRUE, is_protected |-> FALSE],
   [embedding |-> <<<<0, 0>>>>, followers_count |-> 90,
    following_count |-> 90, tweet_count |-> 0,
    verified |-> FALSE, is_protected |-> FALSE]}

\* Every candidate is a mutual of You and of Target and has a profile of any
\* kind; Target has an embedding, none, or the zero vector.
InitScore ==
  /\ LimiterInit /\ ClientAtRest /\ StaleAtRest /\ MutualAtRest
  /\ ScraperAtRest /\ em = EmbedIdle
  /\ pw \in {[connections |-> [u \in PathUsers |->
                                 IF u \in Candidates THEN <<{You, Target}>>
                                 ELSE <<Candidates>>],
              profiles |-> [u \in PathUsers |->
                              IF u \in Candidates THEN <<kinds[u]>>
                              ELSE IF u = Target
                              THEN <<[Plain200 EXCEPT !.embedding = e]>>
                              ELSE <<Plain200>>],
              search |-> <<>>, response |-> <<>>] :
               kinds \in [Candidates -> BridgeKinds],
               e \in {<<>>, <<<<5, 0>>>>, <<<<0, 0>>>>}}

\* One request, between two users with MaxBridges mutual connections.
SpecScore == InitScore /\ [][NextPath]_vars

\* The database of the crawl as analyze_influence_pathways reads it; the
\* columns of a profile the crawl does not hold are those of Plain200.
CrawlDb ==
  [connections |->
     [u \in Users |->
        IF \E c \in committed.connections : c.x_user_id = u
        THEN <<Range((CHOOSE c \in committed.connections :
                        c.x_user_id = u).mutual_ids)>>
        ELSE <<>>],
   profiles |->
     [u \in Users |->
        IF \E r \in committed.profiles : r.x_user_id = u
        THEN <<Plain200>> ELSE <<>>]]

\* The ids of the bridges of an answer.
BridgeIds(answer) ==
  {answer.bridges[i].bridge_user_id : i \in DOMAIN answer.bridges}

\* C27: without a ConnectionSet of the source the request fails with 404;
\* when the target has a ConnectionSet, the bridges of a successful answer
\* are exactly the members of both ConnectionSets.
C27_Original ==
  \A r \in Range(response) :
    /\ x_connections[You] = <<>> => r.status = 404
    /\ x_connections[You] # <<>> /\ x_connections[Target] # <<>>
         /\ r.status = 200 =>
         BridgeIds(r) = x_connections[You][1] \cap x_connections[Target][1]

\* C28: every successful answer holds at least one bridge and
\* total_bridges_found >= 1.
C28_Original ==
  \A r \in Range(response) :
    r.status = 200 => Len(r.bridges) >= 1 /\ r.total_bridges_found >= 1

\* The crawl of user has returned and nothing in it failed.
CrawlSucceeded ==
  /\ spc = "returned"
  /\ rollbacks = {}
  /\ \A p \in DOMAIN apc : apc[p] = "done"

\* alice (user) has the mutuals bob and carol, bob has the mutual dave (5)
\* and carol has not, and dave has no ConnectionSet.
AliceBobCarolDave ==
  /\ Len(first_degree) = 2
  /\ <<user.x_user_id + 1, 5>> \in edges /\ <<5, user.x_user_id + 1>> \in edges
  /\ <<user.x_user_id + 2, 5>> \notin edges
  /\ CrawlDb.connections[5] = <<>>

C30_Scores ==
  /\ response = <<>> =>
       Weighted(80 * Points, 80 * Points, 50 * Points, 60 * Points,
                20 * Points) = 65 * Hundred
  /\ \A r \in Range(response) :
       r.status = 200 =>
         /\ \A i \in DOMAIN r.bridges :
              LET b == r.bridges[i]
              IN  /\ b.overall_score =
                       b.topic_alignment * 30
                         + b.relationship_strength_their_side * 25
                         + b.influence_score * 20
                         + b.engagement_quality * 15
                         + b.relationship_strength_your_side * 10
                  /\ b.relationship_strength_their_side = b.topic_alignment
                  /\ x_profiles[b.bridge_user_id][1].embedding = <<>>
                       \/ x_profiles[Target][1].embedding = <<>>
                       => b.topic_alignment = 50 * Points
         /\ \A i, j \in DOMAIN r.bridges :
              i < j => r.bridges[i].overall_score >= r.bridges[j].overall_score

\* An answer that ranks bridges of different scores, one of them without an
\* embedding and one with an embedding at cosine 0.8 of the target's.
C30_Witness ==
  \E r \in Range(response) :
    /\ r.status = 200
    /\ Len(r.bridges) = MaxBridges
    /\ r.bridges[1].overall_score > r.bridges[Len(r.bridges)].overall_score
    /\ \E i \in DOMAIN r.bridges :
         /\ x_profiles[r.bridges[i].bridge_user_id][1].embedding = <<>>
         /\ r.bridges[i].topic_alignment = 50 * Points
    /\ \E i \in DOMAIN r.bridges : r.bridges[i].topic_alignment = 80 * Points

\* ------------------------------------------------- _request: the retries
\* A failure that is neither a 429 nor another 4xx.
Transient == {"timeout", "s500", "neterr"}

\* C31: an attempt k that ends in a timeout, a 5xx or a network failure is
\* followed, when k < max_retries - 1, by a wait of 2^k seconds and attempt
\* k + 1; the attempt max_retries - 1 is followed by no wait and by the
\* exception of that attempt; no request makes more than max_retries
\* attempts.
C31_Backoff ==
  [][/\ dispatched' <= MaxRetries
     /\ Len(waits') <= MaxRetries - 1
     /\ \A s \in Transient :
          ReqSend(s) =>
            IF attempt < MaxRetries - 1
            THEN /\ waits' = Append(waits, 2 ^ attempt)
                 /\ elapsed' = Later(elapsed, (2 ^ attempt) * TicksPerSecond)
                 /\ attempt' = attempt + 1
                 /\ dispatched' = attempt + 1
                 /\ cpc' = "acquire"
                 /\ reqError' = "none"
            ELSE /\ waits' = waits
                 /\ elapsed' = elapsed
                 /\ dispatched' = MaxRetries
                 /\ reqError' = ErrorOf(s)
                 /\ IF Swallows(op) THEN cpc' = "done"
                    ELSE cpc' = "raised" /\ error' = ErrorOf(s)]_vars

\* A request that timed out max_retries times: it waited 1 s and 2 s, and
\* raised the timeout.
C31_Witness ==
  /\ reqError = "TimeoutException"
  /\ cpc = "raised"
  /\ dispatched = MaxRetries
  /\ waits = <<1, 2>>

\* C40: a 4xx answer other than 429 ends the request at once: no wait, no
\* further attempt, the error raised.
C40_Original ==
  [][ReqSend("s404") =>
       /\ waits' = waits
       /\ elapsed' = elapsed
       /\ cpc' # "acquire"
       /\ reqError' = ErrorOf("s404")]_vars

\* ------------------------------------- scrape_connections: the selection
\* Lists of mutuals longer than a crawl of the model holds: up to MaxOver
\* more than MAX_SECOND_DEGREE_PROFILES profiles, whose ids are Strides
\* apart, so that their follower counts rise, fall, mix or are all equal.
Strides == {1, 3, 9, 10}

LongLists ==
  {ParseUsers([i \in 1..n |-> RawUser(user.x_user_id + i * stride)]) :
     n \in {0, 1, batch_size + 1}
             \cup ((MAX_SECOND_DEGREE_PROFILES - 1)
                     ..(MAX_SECOND_DEGREE_PROFILES + MaxOver)),
     stride \in Strides}

\* limited is the Min(100, n) profiles of mutual with the most followers,
\* each once, in the order of non-increasing follower count.
TopByFollowers(limited, mutual) ==
  LET listed == Range(mutual)
      least == IF limited = <<>> THEN 0
               ELSE limited[Len(limited)].followers_count
  IN  /\ Len(limited) = Min(MAX_SECOND_DEGREE_PROFILES, Len(mutual))
      /\ Cardinality(Ids(limited)) = Len(limited)
      /\ \A i \in DOMAIN limited : limited[i] \in listed
      /\ \A i \in 1..(Len(limited) - 1) :
           limited[i].followers_count >= limited[i + 1].followers_count
      /\ \A k \in DOMAIN mutual :
           mutual[k].x_user_id \notin Ids(limited) =>
             least >= mutual[k].followers_count

\* C32: once the mutuals are selected, limited_mutuals is the min(100, n)
\* first-degree mutuals with the most followers in non-increasing order of
\* follower count, and every task handed to gather so far is of a mutual
\* with at least as many followers as every mutual not yet handed over;
\* the selection does the same on lists of up to 100 + MaxOver profiles.
C32_TopByFollowers ==
  /\ spc \in {"batch", "gather", "returned"} =>
       /\ TopByFollowers(limited_mutuals, first_degree)
       /\ \A j \in DOMAIN apc \ {0} :
            /\ j \in DOMAIN limited_mutuals
            /\ \A k \in DOMAIN limited_mutuals :
                 k \notin DOMAIN apc =>
                   /\ j < k
                   /\ limited_mutuals[j].followers_count
                        >= limited_mutuals[k].followers_count
  /\ spc = "idle" =>
       \A mutual \in LongLists :
         TopByFollowers(Limited(SortedByFollowers(mutual)), mutual)

\* The first batch of a crawl is in flight and a mutual waits for the
\* second; the provider listed the mutuals in another order.
C32_Witness ==
  /\ spc = "gather"
  /\ batch_start = 0
  /\ Len(limited_mutuals) > batch_size
  /\ limited_mutuals # first_degree
  /\ \E mutual \in LongLists :
       /\ Len(mutual) > MAX_SECOND_DEGREE_PROFILES
       /\ Len(Limited(SortedByFollowers(mutual))) = MAX_SECOND_DEGREE_PROFILES

\* ------------------------------------- process_mutual: the crawled user
\* The ConnectionSet of u as a select through the session sees it.
Seen(u) == {row \in View("connections") : row.x_user_id = u}

\* C33: no ConnectionSet stored for a first-degree mutual and no list a
\* task holds or returned for it contains user, and no step of the
\* second-degree phase changes the ConnectionSet of user.
C33_ExcludesUser ==
  [][/\ \A row \in committed'.connections \cup pending'.connections :
          row.x_user_id # user.x_user_id =>
            user.x_user_id \notin Range(row.mutual_ids)
     /\ \A j \in DOMAIN apc' \ {0} : user.x_user_id \notin Ids(amutual'[j])
     /\ user.x_user_id \notin Ids(second_degree_mutuals')
     /\ spc \in {"batch", "gather"} =>
          /\ Stored(user.x_user_id)' = Stored(user.x_user_id)
          /\ Seen(user.x_user_id)' = Seen(user.x_user_id)]_vars

\* A crawl has returned: the ConnectionSet of user is stored, and so is the
\* one of a mutual of user, which holds another profile and was returned
\* with it.
C33_Witness ==
  /\ spc = "returned"
  /\ Stored(user.x_user_id) # {}
  /\ \E j \in DOMAIN apc \ {0} :
       /\ apc[j] = "done"
       /\ amutual[j] # <<>>
       /\ <<X(j), user.x_user_id>> \in edges /\ <<user.x_user_id, X(j)>> \in edges
       /\ \E row \in Stored(X(j)) : row.mutual_ids = IdList(amutual[j])
       /\ Ids(amutual[j]) \subseteq Ids(second_degree_mutuals)

\* --------------------------- scrape_posts_for_profiles: the refresh rule
\* An unprotected profile with MIN_FOLLOWERS_FOR_POSTS followers or more.
Eligible(profile) ==
  ~profile.is_protected /\ profile.followers_count >= MIN_FOLLOWERS_FOR_POSTS

\* The session holds a PostsRecord of the profile discovered at most 24
\* hours ago.
RecentPosts(profile) ==
  \E posts_record \in View("posts") :
    /\ posts_record.x_user_id = profile.x_user_id
    /\ clock - posts_record.discovered_at[1]
         <= POSTS_FRESHNESS_HOURS * ClockParts

\* C34: when the posts loop of a process passes an eligible profile, it
\* requests nothing, writes nothing and counts one more profile as
\* skipped if the PostsRecord of the profile was discovered at most 24
\* hours ago; otherwise it requests the posts of the profile and counts
\* nothing as skipped.
C34_RefreshSkip ==
  [][\A p \in DOMAIN apc \cap DOMAIN apc' :
       /\ apc[p] = "posts"
       /\ Eligible(Current(p))
       /\ <<apc'[p], aidx'[p]>> # <<apc[p], aidx[p]>>
       => IF RecentPosts(Current(p))
          THEN /\ requested' = requested
               /\ apc'[p] # "store"
               /\ pending' = pending
               /\ posts_added' = posts_added
               /\ skipped_fresh'[p] = skipped_fresh[p] + 1
          ELSE /\ Current(p).x_user_id \in requested'
               /\ skipped_fresh'[p] = skipped_fresh[p]]_vars

\* A second crawl, exactly 24 hours after the first: a task has skipped a
\* profile whose posts the first crawl stored and has requested the posts
\* of one the first crawl found none for.
C34_Witness ==
  /\ crawls = 2
  /\ clock = POSTS_FRESHNESS_HOURS * ClockParts
  /\ \E p \in DOMAIN apc :
       /\ skipped_fresh[p] >= 1
       /\ \E i \in DOMAIN amutual[p] :
            /\ amutual[p][i].x_user_id \in requested
            /\ \A row \in committed.posts :
                 row.x_user_id # amutual[p][i].x_user_id
       /\ \E i \in DOMAIN amutual[p], row \in committed.posts :
            /\ row.x_user_id = amutual[p][i].x_user_id
            /\ row.discovered_at = <<0>>
            /\ amutual[p][i].x_user_id \notin requested

\* ------------------------------- influence pathways: the fallback search
\* You with n first-degree connections, Target without a ConnectionSet.
SampleUsers(n) == {You, Target} \cup (3..(2 + n))

\* You has one connection fewer than the sample holds, as many, or one
\* more; the first, the second and the last of them may each have Target
\* in their ConnectionSet, the others have no ConnectionSet or one without
\* Target; the first connection or Target may lack a profile row.
SampleWorlds ==
  UNION
    {{[connections |->
         [u \in SampleUsers(n) |->
            IF u = You THEN <<3..(2 + n)>>
            ELSE IF u = Target THEN <<>>
            ELSE IF u \in linked THEN <<{You, Target}>>
            ELSE others],
       profiles |->
         [u \in SampleUsers(n) |->
            IF u \in missing THEN <<>> ELSE <<Plain200>>],
       search |-> <<>>, response |-> <<>>] :
        linked \in SUBSET {3, 4, 2 + n},
        others \in {<<>>, <<{You}>>},
        missing \in {{}, {3}, {Target}}} :
     n \in (PathwaySample - 1)..(PathwaySample + 1)}

InitSample ==
  /\ LimiterInit /\ ClientAtRest /\ StaleAtRest /\ MutualAtRest
  /\ ScraperAtRest /\ em = EmbedIdle
  /\ pw \in SampleWorlds

\* One request for a target without a ConnectionSet, from a user with
\* about PathwaySample connections.
SpecSample == InitSample /\ [][NextPath]_vars

C36_Original ==
  [][\A ids \in IdLists, limit \in BatchSizes :
       \A profiles \in Selected(em, ids, limit) :
         \A outcome \in [Range(profiles) -> Outcomes] :
           GenerateEmbeddingsForProfiles(ids, limit, profiles, outcome) =>
             /\ Range(profiles) \subseteq NeedsEmbedding(em)
             /\ Len(profiles) <= limit
             /\ ids # <<>> => Range(profiles) \subseteq ids[1]
             /\ \A p \in EProfiles \ Range(profiles) :
                  summary'[p] = summary[p] /\ embedding'[p] = embedding[p]]_vars

\* ------------------------------------------- token bucket: never too much
\* The cost, in tick-worths, of the call that returns in a step.
GrantedNow ==
  LET returning == {c \in Callers :
                      pc[c] \in {"locked", "sleeping"} /\ pc'[c] = "idle"}
  IN  IF returning = {} THEN 0
      ELSE cost[CHOOSE c \in returning : TRUE] * TicksPerToken

\* The ticks that pass in a step.
Ticked == IF Tick THEN 1 ELSE 0

\* C37 as claimed, on the intervals of one step: tokens stay between 0 and
\* capacity, and the cost granted in a step is at most the tokens available
\* before it plus what the time of the step refills.
C37_Original ==
  /\ [](0 <= tokens /\ tokens <= Full)
  /\ [][GrantedNow <= TokensRemaining + Ticked]_vars

\* C37 amended: tokens stay between 0 and capacity, and in every step in
\* which no call of more than capacity tokens returns, the tokens available
\* after it and the cost granted in it are together at most the tokens
\* available before it plus what the time of the step refills; summed over
\* the steps of an interval, the cost granted in it is at most the tokens
\* available at its start plus rate times its length.
C37_NeverOverGrants ==
  /\ [](0 <= tokens /\ tokens <= Full)
  /\ [][GrantedNow <= Full =>
          TokensRemaining' + GrantedNow <= TokensRemaining + Ticked]_vars

\* An observed sequence of calls costing capacity in all has returned, one
\* of them after a sleep, and the bucket is empty.
C37_Witness ==
  /\ observing
  /\ seqCost = Capacity
  /\ seqSleeps >= 1
  /\ \A c \in Callers : pc[c] = "idle"
  /\ TokensRemaining = 0

\* ------------------------------------------ add_to_db: what has been kept
\* The post records that the scrape_posts_for_profiles call of process p
\* has committed.
PostsCommitted(p) == {w \in durable.posts : w[1] = X(p)}

\* C38 as claimed: when add_to_db(X, mutual) has returned normally, X's
\* ConnectionSet with exactly the ids of mutual and an upsert of every
\* profile of mutual are committed, and once scrape_posts_for_profiles has
\* returned, the number it returned is the number of post records it
\* committed, also after a rollback.
C38_Original ==
  \A p \in DOMAIN apc :
    /\ apc[p] = "done" =>
         /\ <<X(p), IdList(amutual[p])>> \in durable.connections
         /\ \A q \in Ids(amutual[p]) : <<X(p), q>> \in durable.upserts
    /\ (apc[p] \in {"commit186", "done"} /\ amutual[p] # <<>>) =>
         posts_added[p] = Cardinality(PostsCommitted(p))

\* ------------------------------------- scrape_connections: embedding stage
\* C39 as claimed: the embedding stage never makes scrape_connections fail:
\* when constructing the embeddings service or generating the embeddings
\* raises, scrape_connections returns its crawl result with
\* embeddings_generated = 0 and embeddings_errors = the number of unique
\* profile ids.
C39_Original ==
  /\ [](spc # "unbound")
  /\ [][Embed("unconfigured") \/ Embed("raises") =>
          /\ spc' = "returned"
          /\ returned'[1].mutual = first_degree
          /\ returned'[1].second_degree_mutuals = second_degree_mutuals
          /\ returned'[1].embeddings_generated = 0
          /\ returned'[1].embeddings_errors = Cardinality(unique_ids)]_vars

====
